---- MODULE Spec2Model ----
(***************************************************************************)
(* Model of the netcheck client (Client.GetReport and the STUN response    *)
(* correlator) of tailscale.com/net/netcheck.                              *)
(*                                                                         *)
(* Durations (time.Duration) are integers in nanoseconds, as in the code.  *)
(* Wall-clock instants (time.Time) are integers in minutes; the zero       *)
(* time.Time is ZeroTime.  Maps are functions with a finite domain; a read *)
(* of a missing key yields 0 (MapGet), as in Go.  opt.Bool is one of the   *)
(* strings "", "true", "false".                                            *)
(***************************************************************************)
EXTENDS Integers, Sequences, FiniteSets, TLC

\* ------------------------------------------------------------------ bounds

\* Number of GetReport invocations admitted in one behaviour of SpecClient.
MaxCalls == 3

\* Largest value of the Client's clock (minutes) in SpecClient and SpecPref.
MaxTime == 6

\* The latest time of the port mapper's clock, in its ticks.
MaxPMTime == 4

\* ------------------------------------------------------- program constants

Millisecond == 1000000

defaultActiveRetransmitTime == 200 * Millisecond

defaultInitialRetransmitTime == 100 * Millisecond

numIncrementalRegions == 3

\* "5*time.Minute" of GetReport (forced full report), in minutes.
fullInterval == 5

\* "maxAge" of addReportHistoryAndSetPreferredDERP, in minutes.
maxAge == 5

\* The zero time.Time: further in the past than any interval of the model.
ZeroTime == -1000

\* Verbose is false in the model.
enoughRegions == 3

probeIPv4 == 0

probeIPv6 == 1

\* ---------------------------------------------------------------- helpers

EmptyMap == [x \in {} |-> 0]

MapGet(m, k) == IF k \in DOMAIN m THEN m[k] ELSE 0

MapPut(m, k, v) == [x \in (DOMAIN m) \cup {k} |-> IF x = k THEN v ELSE m[x]]

Min(a, b) == IF a < b THEN a ELSE b

\* opt.Bool.Set
OptSet(v) == IF v THEN "true" ELSE "false"

\* ------------------------------------------------------------- relay maps

\* A node: the literals IPv4/IPv6 are modelled by what netaddr.ParseIP makes
\* of them: "" (not set), "ip4", "ip6".
Node(name, rid, v4, v6, stunOnly) ==
    [Name |-> name, RegionID |-> rid, IPv4 |-> v4, IPv6 |-> v6, STUNOnly |-> stunOnly]

Region(rid, avoid, nodes) == [RegionID |-> rid, Avoid |-> avoid, Nodes |-> nodes]

\* One region with two nodes.
DM1 == (1 :> Region(1, FALSE, <<Node("1a", 1, "", "", FALSE), Node("1b", 1, "", "", FALSE)>>))

\* Two regions with one node each.
DM2 ==
    (1 :> Region(1, FALSE, <<Node("1a", 1, "", "", FALSE)>>)) @@
    (2 :> Region(2, FALSE, <<Node("2a", 2, "", "", FALSE)>>))

\* One region with one node, marked Avoid.
DMAvoid == (1 :> Region(1, TRUE, <<Node("1a", 1, "", "", FALSE)>>))

\* One region with a node that has an IPv4 address only and a node that has
\* an IPv6 address only.
DM46 == (1 :> Region(1, FALSE, <<Node("1a", 1, "ip4", "none", FALSE), Node("1b", 1, "none", "ip6", FALSE)>>))

\* Two regions with three nodes each, of which one is in use by IPv4 and
\* one by IPv6: region 1 has STUN-only nodes, one of them an IPv6 node
\* without address literal (its name is resolved); region 2 has an IPv4
\* node and an IPv6 node with literals.
DMMixed ==
    (1 :> Region(1, FALSE, <<Node("1a", 1, "none", "", TRUE), Node("1b", 1, "none", "none", TRUE),
                             Node("1c", 1, "none", "none", TRUE)>>)) @@
    (2 :> Region(2, FALSE, <<Node("2a", 2, "ip4", "none", FALSE), Node("2b", 2, "none", "ip6", FALSE),
                             Node("2c", 2, "none", "none", FALSE)>>))

\* Three regions with three nodes each, of which one is in use, by IPv6.  The
\* plan of a full report has one probe for each region: try 0 in regions 1
\* and 2, try 1 in region 3.
DM3 ==
    (1 :> Region(1, FALSE, <<Node("1a", 1, "none", "ip6", FALSE), Node("1b", 1, "none", "none", FALSE),
                             Node("1c", 1, "none", "none", FALSE)>>)) @@
    (2 :> Region(2, FALSE, <<Node("2a", 2, "none", "ip6", FALSE), Node("2b", 2, "none", "none", FALSE),
                             Node("2c", 2, "none", "none", FALSE)>>)) @@
    (3 :> Region(3, FALSE, <<Node("3a", 3, "none", "none", FALSE), Node("3b", 3, "none", "ip6", FALSE),
                             Node("3c", 3, "none", "none", FALSE)>>))

\* One region with three nodes, of which the second is in use, by IPv4: the
\* plan of a full report has one probe, try 1.
DMOne ==
    (1 :> Region(1, FALSE, <<Node("1a", 1, "none", "none", FALSE), Node("1b", 1, "ip4", "none", FALSE),
                             Node("1c", 1, "none", "none", FALSE)>>))

\* Largest number of nodes of region 1 in the relay maps of SpecPlan.
MaxPlanNodes == 3

\* The names of region 1's nodes in the relay maps of SpecPlan, by position.
PlanNodeNames == <<"1a", "1b", "1c", "1d", "1e", "1f">>

\* The pairs of address literals (IPv4, IPv6) of a node in these maps.
PlanLiterals ==
    {<<"", "">>, <<"ip4", "none">>, <<"none", "ip6">>, <<"none", "none">>, <<"ip4", "ip6">>}

\* Relay maps of region 1 with one to MaxPlanNodes nodes of any literals,
\* alone or with a region 2 of one node, avoided or not.
PlanMaps ==
    LET nodes(n, k) == [i \in 1..n |-> Node(PlanNodeNames[i], 1, k[i][1], k[i][2], FALSE)]
        r1 == UNION {{Region(1, FALSE, nodes(n, k)) : k \in [1..n -> PlanLiterals]} :
                        n \in 1..MaxPlanNodes}
        r2 == {Region(2, avoid, <<Node("2a", 2, k[1], k[2], FALSE)>>) :
                  k \in {<<"", "">>, <<"none", "ip6">>}, avoid \in BOOLEAN}
    IN  {(1 :> a) : a \in r1} \cup {(1 :> a) @@ (2 :> b) : a \in r1, b \in r2}

namedNode(m, nodeName) ==
    LET hits == {n \in UNION {{m[r].Nodes[i] : i \in 1..Len(m[r].Nodes)} : r \in DOMAIN m} :
                    n.Name = nodeName}
    IN  CHOOSE n \in hits : TRUE

\* A variant of regionHasDERPNode that counts the STUN-only nodes too.
regionHasNode(r) == Len(r.Nodes) > 0

regionHasDERPNode(r) == \E i \in 1..Len(r.Nodes) : ~r.Nodes[i].STUNOnly

\* ---------------------------------------------------------------- reports

newReport ==
    [UDP |-> FALSE, IPv6 |-> FALSE, IPv4 |-> FALSE,
     MappingVariesByDestIP |-> "", HairPinning |-> "",
     UPnP |-> "", PMP |-> "", PCP |-> "",
     PreferredDERP |-> 0,
     RegionLatency |-> EmptyMap, RegionV4Latency |-> EmptyMap, RegionV6Latency |-> EmptyMap,
     GlobalV4 |-> "", GlobalV6 |-> ""]

\* A variant of updateLatency that keeps the latest latency, not the lowest.
updateLatencyLatest(m, regionID, d) == MapPut(m, regionID, d)

updateLatency(m, regionID, d) ==
    IF regionID \notin DOMAIN m \/ d < m[regionID] THEN MapPut(m, regionID, d) ELSE m

\* Largest previous latency of a region in the reports of SpecIncr, in
\* units of 10 ms.
MaxPrevLatency == 3

\* Four regions in use, the second with two nodes and the others with one,
\* and an avoided region 5.
DMIncr ==
    (1 :> Region(1, FALSE, <<Node("1a", 1, "", "", FALSE)>>)) @@
    (2 :> Region(2, FALSE, <<Node("2a", 2, "", "", FALSE), Node("2b", 2, "", "", FALSE)>>)) @@
    (3 :> Region(3, FALSE, <<Node("3a", 3, "", "", FALSE)>>)) @@
    (4 :> Region(4, FALSE, <<Node("4a", 4, "", "", FALSE)>>)) @@
    (5 :> Region(5, TRUE, <<Node("5a", 5, "", "", FALSE)>>))

\* The reports an earlier invocation may have returned for DMIncr: the
\* avoided region 5 was the fastest (5 ms); any of the regions 1..4 has a
\* latency of 10 ms to MaxPrevLatency x 10 ms; the latencies were measured
\* by IPv4, by IPv6, by both or by neither (HTTPS); PreferredDERP is a region
\* with a latency.
PrevReports ==
    LET lats(rids, l) == [r \in rids \cup {5} |-> IF r = 5 THEN 5 * Millisecond
                                                  ELSE l[r] * 10 * Millisecond]
        all == UNION {{lats(rids, l) : l \in [rids -> 1..MaxPrevLatency]} : rids \in SUBSET (1..4)}
        reps == {[newReport EXCEPT !.UDP = had4 \/ had6, !.IPv4 = had4, !.IPv6 = had6,
                                   !.RegionLatency = rl,
                                   !.RegionV4Latency = IF had4 THEN rl ELSE EmptyMap,
                                   !.RegionV6Latency = IF had6 THEN rl ELSE EmptyMap,
                                   !.PreferredDERP = p] :
                    rl \in all, had4 \in BOOLEAN, had6 \in BOOLEAN, p \in 1..5}
    IN  {rep \in reps : rep.PreferredDERP \in DOMAIN rep.RegionLatency}

\* ---------------------------------------------------------- probe planner

nodeMight6(n) == n.IPv6 = "" \/ n.IPv6 = "ip6"

nodeMight4(n) == n.IPv4 = "" \/ n.IPv4 = "ip4"

Probe(delay, node, proto) == [delay |-> delay, node |-> node, proto |-> proto]

\* The plan-set name fmt.Sprintf("region-%d-v4", id) is the pair <<id, probeIPv4>>.
SetName(rid, proto) == <<rid, proto>>

\* A plan from the per-region probe lists p4 and p6: a set with no probe is
\* absent from the plan.
PlanOf(rids, p4, p6) ==
    LET keys == {SetName(r, probeIPv4) : r \in {x \in rids : Len(p4[x]) > 0}} \cup
                {SetName(r, probeIPv6) : r \in {x \in rids : Len(p6[x]) > 0}}
    IN  [k \in keys |-> IF k[2] = probeIPv4 THEN p4[k[1]] ELSE p6[k[1]]]

\* A variant of makeProbePlanInitial that probes the first node of a region
\* at every try.
makeProbePlanInitialFirst(m, ifState) ==
    LET all(reg, proto) ==
            [t \in 1..3 |-> Probe((t - 1) * defaultInitialRetransmitTime, reg.Nodes[1].Name, proto)]
        want4(p) == ifState.HaveV4 /\ nodeMight4(namedNode(m, p.node))
        want6(p) == ifState.HaveV6 /\ nodeMight6(namedNode(m, p.node))
        p4 == [r \in DOMAIN m |-> SelectSeq(all(m[r], probeIPv4), want4)]
        p6 == [r \in DOMAIN m |-> SelectSeq(all(m[r], probeIPv6), want6)]
    IN  PlanOf(DOMAIN m, p4, p6)

makeProbePlanInitial(m, ifState) ==
    LET nodeAt(reg, try) == reg.Nodes[(try % Len(reg.Nodes)) + 1]
        all(reg, proto) ==
            [t \in 1..3 |-> Probe((t - 1) * defaultInitialRetransmitTime,
                                  nodeAt(reg, t - 1).Name, proto)]
        want4(p) == ifState.HaveV4 /\ nodeMight4(namedNode(m, p.node))
        want6(p) == ifState.HaveV6 /\ nodeMight6(namedNode(m, p.node))
        p4 == [r \in DOMAIN m |-> SelectSeq(all(m[r], probeIPv4), want4)]
        p6 == [r \in DOMAIN m |-> SelectSeq(all(m[r], probeIPv6), want6)]
    IN  PlanOf(DOMAIN m, p4, p6)

\* A variant of sortLess that compares the latencies alone.
sortLessPlain(last, a, b) == MapGet(last.RegionLatency, a) < MapGet(last.RegionLatency, b)

\* sort.Slice's less function of sortRegions, on region ids.
sortLess(last, a, b) ==
    LET da == MapGet(last.RegionLatency, a)
        db == MapGet(last.RegionLatency, b)
    IN  IF db = 0 /\ da # 0 THEN TRUE
        ELSE IF da = 0 THEN FALSE
        ELSE da < db

\* sortRegions: the orders sort.Slice may produce (the iteration order of the
\* map dm.Regions and the order of equal elements are unspecified).
sortRegions(m, last) ==
    LET ids == {r \in DOMAIN m : ~m[r].Avoid}
        n == Cardinality(ids)
    IN  {s \in [1..n -> ids] :
            /\ \A i, j \in 1..n : i # j => s[i] # s[j]
            /\ \A i, j \in 1..n : i < j => ~sortLess(last, s[j], s[i])}

\* A variant of incrementalFamilies without the alternation of the slower
\* regions.
incrementalFamiliesAll(ri, have4if, have6if, hadBoth, had6) ==
    [do4 |-> have4if, do6 |-> IF ri >= 2 /\ ~had6 THEN FALSE ELSE have6if]

\* do4 and do6 of the region of rank ri before its tries: the regions after
\* the fastest two alternate when both families worked, and have no IPv6
\* when IPv6 did not work.
incrementalFamilies(ri, have4if, have6if, hadBoth, had6) ==
    LET isFastestTwo == ri < 2
        alternate == ~isFastestTwo /\ hadBoth
        do4 == IF alternate THEN ri % 2 = 0 ELSE have4if
        do6 == IF alternate THEN ri % 2 # 0 ELSE have6if
    IN  [do4 |-> do4, do6 |-> IF ~isFastestTwo /\ ~had6 THEN FALSE ELSE do6]

\* A variant of incrementalDelay without the extra 50 ms per try.
incrementalDelayPlain(last, rid, try) ==
    LET l == (MapGet(last.RegionLatency, rid) * 6) \div 5
    IN  try * (IF l = 0 THEN defaultActiveRetransmitTime ELSE l)

\* The delay of try number try of region rid; last.RegionLatency[rid] * 120
\* / 100 is written x*6/5 (same quotient).
incrementalDelay(last, rid, try) ==
    LET l == (MapGet(last.RegionLatency, rid) * 6) \div 5
        prevLatency == IF l = 0 THEN defaultActiveRetransmitTime ELSE l
    IN  try * prevLatency + (IF try > 1 THEN try * 50 * Millisecond ELSE 0)

\* The incremental plan for one sorted order prev.
makeProbePlanSorted(m, ifState, last, prev) ==
    LET have6if == ifState.HaveV6
        have4if == ifState.HaveV4
        had4 == DOMAIN last.RegionV4Latency # {}
        had6 == DOMAIN last.RegionV6Latency # {}
        hadBoth == have6if /\ had4 /\ had6
        kept == 1..Min(Len(prev), numIncrementalRegions)
        ri(k) == k - 1
        isFastestTwo(k) == ri(k) < 2
        do4(k) == incrementalFamilies(ri(k), have4if, have6if, hadBoth, had6).do4
        do6(k) == incrementalFamilies(ri(k), have4if, have6if, hadBoth, had6).do6
        tries(k) == IF prev[k] = last.PreferredDERP THEN 4
                    ELSE IF isFastestTwo(k) THEN 2 ELSE 1
        delay(k, try) == incrementalDelay(last, prev[k], try)
        nodeAt(k, try) == m[prev[k]].Nodes[(try % Len(m[prev[k]].Nodes)) + 1]
        all(k, proto) ==
            IF Len(m[prev[k]].Nodes) = 0 THEN <<>>
            ELSE [t \in 1..tries(k) |-> Probe(delay(k, t - 1), nodeAt(k, t - 1).Name, proto)]
        \* do6 is cleared for every try but the first when IPv6 did not work.
        keep6(k, p) == do6(k) /\ (p.delay = 0 \/ had6)
        seq4(k) == IF do4(k) THEN all(k, probeIPv4) ELSE <<>>
        seq6(k) == LET keep(p) == keep6(k, p) IN SelectSeq(all(k, probeIPv6), keep)
        pos(r) == CHOOSE k \in kept : prev[k] = r
        rids == {prev[k] : k \in kept}
        p4 == [r \in rids |-> seq4(pos(r))]
        p6 == [r \in rids |-> seq6(pos(r))]
    IN  IF ~have4if /\ ~have6if THEN EmptyMap ELSE PlanOf(rids, p4, p6)

\* makeProbePlan: the plans it may return; last is <<>> (nil) or <<report>>.
makeProbePlan(m, ifState, last) ==
    IF Len(last) = 0 \/ DOMAIN last[1].RegionLatency = {}
    THEN {makeProbePlanInitial(m, ifState)}
    ELSE {makeProbePlanSorted(m, ifState, last[1], prev) : prev \in sortRegions(m, last[1])}

\* -------------------------------------------- preferred-region selection

\* All orders in which a Go "range" may visit the key set ks.
Orders(ks) ==
    {s \in [1..Cardinality(ks) -> ks] : \A i, j \in 1..Cardinality(ks) : i # j => s[i] # s[j]}

\* bestRecent: region id => its best latency over the retained reports.
bestRecentOf(reports) ==
    LET ids == UNION {DOMAIN reports[t].RegionLatency : t \in DOMAIN reports}
        lats(id) == {reports[t].RegionLatency[id] :
                        t \in {u \in DOMAIN reports : id \in DOMAIN reports[u].RegionLatency}}
    IN  [id \in ids |-> CHOOSE d \in lats(id) : \A e \in lats(id) : d <= e]

\* The loop "for regionID, d := range r.RegionLatency" for one visiting order:
\* acc = [pref, bestAny, old] is (r.PreferredDERP, bestAny, oldRegionCurLatency).
RECURSIVE pickBest(_, _, _, _, _, _)
pickBest(order, i, rl, bestRecent, prevDERP, acc) ==
    IF i > Len(order) THEN acc
    ELSE LET regionID == order[i]
             old == IF regionID = prevDERP THEN rl[regionID] ELSE acc.old
             best == MapGet(bestRecent, regionID)
         IN  pickBest(order, i + 1, rl, bestRecent, prevDERP,
                      IF acc.pref = 0 \/ best < acc.bestAny
                      THEN [pref |-> regionID, bestAny |-> best, old |-> old]
                      ELSE [acc EXCEPT !.old = old])

\* A variant of sticks that does not ask for the old region's current latency.
sticksUnmeasured(prevDERP, pref, oldRegionCurLatency, bestAny) ==
    /\ prevDERP # 0
    /\ pref # prevDERP
    /\ bestAny > (oldRegionCurLatency \div 3) * 2

\* A variant of sticks that compares with half of the old region's latency.
sticksHalf(prevDERP, pref, oldRegionCurLatency, bestAny) ==
    /\ prevDERP # 0
    /\ pref # prevDERP
    /\ oldRegionCurLatency # 0
    /\ bestAny > oldRegionCurLatency \div 2

\* The stickiness test of addReportHistoryAndSetPreferredDERP.
sticks(prevDERP, pref, oldRegionCurLatency, bestAny) ==
    /\ prevDERP # 0
    /\ pref # prevDERP
    /\ oldRegionCurLatency # 0
    /\ bestAny > (oldRegionCurLatency \div 3) * 2

\* A variant of retained that drops no report.
retainedAll(prevMap, r, now) == MapPut(prevMap, now, r)

\* The history kept after adding r at time now: entries older than maxAge go.
retained(prevMap, r, now) ==
    LET added == MapPut(prevMap, now, r)
    IN  [t \in {u \in DOMAIN added : ~(now - u > maxAge)} |-> added[t]]

\* The values r.PreferredDERP may get (one per visiting order of the map).
preferredDERP(prevMap, lastRep, r, now) ==
    LET prevDERP == IF Len(lastRep) = 0 THEN 0 ELSE lastRep[1].PreferredDERP
        bestRecent == bestRecentOf(retained(prevMap, r, now))
        final(order) ==
            LET acc == pickBest(order, 1, r.RegionLatency, bestRecent, prevDERP,
                                [pref |-> r.PreferredDERP, bestAny |-> 0, old |-> 0])
            IN  IF sticks(prevDERP, acc.pref, acc.old, acc.bestAny) THEN prevDERP ELSE acc.pref
    IN  {final(order) : order \in Orders(DOMAIN r.RegionLatency)}

\* ------------------------------------------------------------------ state

VARIABLES
    dm,         \* the relay map passed to GetReport
    ifState,    \* what interfaces.GetState returns
    callLimit,  \* how many GetReport invocations the behaviour admits
    timeLimit,  \* the latest time the Client's clock shows in the behaviour
    udp6,       \* whether a bind of a udp6 socket succeeds in the behaviour
    mu,         \* Client.mu: "" or the task that holds it
    clock,      \* the latest reading of the Client's clock (TimeNow), in minutes
    nextFull,   \* Client.nextFull
    prev,       \* Client.prev: time => report
    last,       \* Client.last: <<>> (nil) or <<report>>
    lastFull,   \* Client.lastFull
    curState,   \* Client.curState: 0 (nil) or the number of the current invocation
    nCalls,     \* number of GetReport invocations admitted so far
    rs,         \* the reportState of the latest admitted invocation
    pc,         \* the position of the latest admitted invocation in GetReport
    reader,     \* the socket reader tasks inside ReceiveSTUNPacket
    result,     \* what the latest admitted invocation returned
    refused,    \* observation: a GetReport call was refused since the last admission
    requested,  \* observation: MakeNextReportFull was called since the last admission
    adm,        \* observation: the last two admissions, newest last: start time,
                \* full (not incremental), decided (full by request or by age),
                \* requested, hadLast (c.last was not nil)
    sentAtWait, \* observation: rs.sentHairCheck when waitHairCheck read it
    pmc,        \* the portmapper.Client
    probeRun,   \* the invocation of portmapper's Client.Probe
    psr,        \* the ProbeSubResults of a Prober
    prober      \* the Prober: its stop channel, its two tasks, its callers

\* The state of package portmapper.
pmvars == <<pmc, probeRun, psr, prober>>

vars == <<dm, ifState, callLimit, timeLimit, udp6, mu, clock, nextFull, prev, last, lastFull, curState, nCalls,
          rs, pc, reader, result, refused, requested, adm, sentAtWait, pmvars>>

\* The reader of pc4 and the reader of pc6.
Readers == {probeIPv4, probeIPv6}

\* Latencies a probe or an HTTPS measurement may observe.
LatVals == {10 * Millisecond, 25 * Millisecond}

\* The ip:port a STUN server may report, by family.
EPs(proto) ==
    IF proto = probeIPv4 THEN {"198.51.100.7:40000", "198.51.100.7:40001"}
    ELSE {"[2001:db8::7]:40000"}

V4Only == [HaveV4 |-> TRUE, HaveV6 |-> FALSE]

DualStack == [HaveV4 |-> TRUE, HaveV6 |-> TRUE]

\* No interface has an address: the probe plan is empty.
NoAddress == [HaveV4 |-> FALSE, HaveV6 |-> FALSE]

\* What is left of the invocation before the latest one, which has returned:
\* wire, a response to one of its probes is on its way ("wire"), or was
\* received while no invocation was current ("nostate") or while the latest
\* was ("dropped"); echo, the same of the echo of its hairpin probe; timers,
\* its early-stop timers that are pending; recorded, stopProbeCh: a callback
\* has recorded a latency in its reportState, a timer has signalled its
\* stopProbeCh.
NoOld ==
    [wire |-> "", echo |-> "", timers |-> 0, recorded |-> FALSE, stopProbeCh |-> FALSE]

\* A reportState as GetReport creates it.  last is GetReport's local variable
\* of that name; mu is "" or the task that holds rs.mu over more than one
\* step; expiredAt is "" or the position of GetReport when its context ended;
\* hairEcho observes the first echo of the hairpin probe: "" (none so far),
\* "first" (it came before the hairpin timer fired) or "late"; hairSends
\* counts the hairpin probes written (each starts a hairpinCheckTimeout
\* timer), hairFired the timers that have fired; old is what is left of the
\* invocation before; pc6 is whether rs.pc6 is not nil (rs.pc4 is not nil
\* from the start of the probes on).
NoRS ==
    [incremental |-> FALSE, last |-> <<>>, sentHairCheck |-> FALSE, report |-> newReport,
     inFlight |-> {}, gotEP4 |-> "", timers |-> <<>>,
     gotHairSTUN |-> FALSE, hairTimeout |-> FALSE, stopProbeCh |-> FALSE,
     mu |-> "", ctxDone |-> FALSE, expiredAt |-> "", plan |-> EmptyMap, cancelled |-> {},
     probe |-> EmptyMap, need |-> {}, hairEcho |-> "", hairSends |-> 0, hairFired |-> 0,
     old |-> NoOld, pc6 |-> FALSE]

NoResult == [err |-> "", report |-> newReport]

NoReader == [pc |-> "idle", tx |-> <<>>]

\* The latest invocation was admitted and has not returned; at "panic" the
\* process has ended by a run-time panic.
Live == pc \notin {"none", "returned", "panic"}

\* ------------------------------------------------------- package portmapper

\* The fields of ProbeResult.
Services == {"PCP", "PMP", "UPnP"}

\* A ProbeResult with every field false.
NoProbeResult == [x \in Services |-> FALSE]

\* A portmapper.Client at time now: whether the netcheck Client uses it
\* (PortMapper is not nil and SkipExternalNetwork is false), whether
\* gatewayAndSelfIP finds a gateway, the timestamps of the positive-result
\* cache and of the last Probe without error; okSeen observes, by service,
\* the time of the last reply with result OK that a Probe has read.
NewPMClient(netcheck, gw) ==
    [netcheck |-> netcheck, gw |-> gw, now |-> 0,
     pmpPubIPTime |-> ZeroTime, pcpSawTime |-> ZeroTime, uPnPSawTime |-> ZeroTime,
     lastProbe |-> ZeroTime, okSeen |-> [x \in Services |-> ZeroTime]]

\* No invocation of Probe: by is who called ("direct" or "netcheck"), wire
\* the requests sent, pending the requests a reply may still come for, upnp
\* the state of the UPnP discovery task, cached the services taken from the
\* cache, started the time of the call, okBefore the value of okSeen at the
\* call, deadline whether ReadFrom failed with the deadline of ctx exceeded.
NoProbeRun ==
    [pc |-> "idle", by |-> "", res |-> NoProbeResult, err |-> "", pcpHeard |-> FALSE,
     deadline |-> FALSE, wire |-> {}, pending |-> {}, upnp |-> "none", cached |-> {}, started |-> 0,
     okBefore |-> [x \in Services |-> ZeroTime]]

\* A netcheck Client without PortMapper, and no Prober.
NoPortMapper ==
    /\ pmc = NewPMClient(FALSE, FALSE)
    /\ probeRun = NoProbeRun
    /\ psr = <<>>
    /\ prober = <<>>

\* The netcheck Client on which GetReport was never called.
InitNetcheck(m, ifs, limit, until) ==
    /\ dm = m
    /\ ifState = ifs
    /\ callLimit = limit
    /\ timeLimit = until
    /\ udp6 = TRUE
    /\ mu = ""
    /\ clock = 0
    /\ nextFull = FALSE
    /\ prev = EmptyMap
    /\ last = <<>>
    /\ lastFull = ZeroTime
    /\ curState = 0
    /\ nCalls = 0
    /\ rs = NoRS
    /\ pc = "none"
    /\ reader = [k \in Readers |-> NoReader]
    /\ result = NoResult
    /\ refused = FALSE
    /\ requested = FALSE
    /\ adm = <<>>
    /\ sentAtWait = FALSE

\* A Client on which GetReport was never called.
InitFresh(m, ifs, limit, until) ==
    /\ InitNetcheck(m, ifs, limit, until)
    /\ NoPortMapper

\* A report an earlier full invocation may have returned for the relay map DM1:
\* one IPv4 response of region 1, hairpinning h ("" when the response came
\* after waitHairCheck).
EarlierReport(h) ==
    [newReport EXCEPT !.UDP = TRUE, !.IPv4 = TRUE,
                      !.RegionLatency = MapPut(EmptyMap, 1, 25 * Millisecond),
                      !.RegionV4Latency = MapPut(EmptyMap, 1, 25 * Millisecond),
                      !.GlobalV4 = "198.51.100.7:40000",
                      !.HairPinning = h, !.PreferredDERP = 1]

\* A Client whose only earlier invocation was full, started at time t0 and
\* returned r0 in the same minute.
InitWarm(m, ifs, limit, until, t0, r0) ==
    /\ dm = m
    /\ ifState = ifs
    /\ callLimit = limit
    /\ timeLimit = until
    /\ udp6 = TRUE
    /\ mu = ""
    /\ clock = 0
    /\ nextFull = FALSE
    /\ prev = MapPut(EmptyMap, t0, r0)
    /\ last = <<r0>>
    /\ lastFull = t0
    /\ curState = 0
    /\ nCalls = 0
    /\ rs = NoRS
    /\ pc = "none"
    /\ reader = [k \in Readers |-> NoReader]
    /\ result = NoResult
    /\ refused = FALSE
    /\ requested = FALSE
    /\ adm = <<>>
    /\ sentAtWait = FALSE
    /\ NoPortMapper

\* ------------------------------------------------------- reportState code

\* The transaction ids of a plan's probes: <<set name, index in the set>>.
TxOf(plan) == UNION {{<<k, n>> : n \in 1..Len(plan[k])} : k \in DOMAIN plan}

ProbeOf(st, tx) == st.plan[tx[1]][tx[2]]

\* A variant of probeWouldHelp that looks at the region's latency only.
probeWouldHelpRegion(st, probe, node) ==
    node.RegionID \notin DOMAIN st.report.RegionLatency

probeWouldHelp(st, probe, node) ==
    IF node.RegionID \notin DOMAIN st.report.RegionLatency THEN TRUE
    ELSE IF probe.proto = probeIPv6 /\ DOMAIN st.report.RegionV6Latency = {} THEN TRUE
    ELSE IF probe.proto = probeIPv4 /\ st.report.MappingVariesByDestIP = "" THEN TRUE
    ELSE FALSE

\* A variant of startHairCheckLocked that sends the probe in incremental
\* invocations too.
startHairCheckAlways(st) ==
    IF st.sentHairCheck THEN st
    ELSE [st EXCEPT !.sentHairCheck = TRUE, !.hairSends = @ + 1]

\* Sends the hairpin probe with hairTX and starts the hairpinCheckTimeout timer.
startHairCheckLocked(st) ==
    IF st.sentHairCheck \/ st.incremental THEN st
    ELSE [st EXCEPT !.sentHairCheck = TRUE, !.hairSends = @ + 1]

\* A variant of maxDurationValue: the lowest latency of the map.
minDurationValue(m) == CHOOSE v \in {m[k] : k \in DOMAIN m} : \A k \in DOMAIN m : m[k] >= v

maxDurationValue(m) ==
    IF DOMAIN m = {} THEN 0
    ELSE CHOOSE v \in {m[k] : k \in DOMAIN m} : \A k \in DOMAIN m : m[k] <= v

\* The early-stop timer of addNodeLatency: a timer is a record of its state
\* ("pending", "fired" or "stopped") and its duration.
addStopTimer(st, regionLatency) ==
    IF Cardinality(DOMAIN regionLatency) = enoughRegions
    THEN Append(st.timers, [state |-> "pending",
                            timeout |-> IF st.incremental THEN maxDurationValue(regionLatency)
                                        ELSE 2 * maxDurationValue(regionLatency)])
    ELSE st.timers

\* A variant of mappingVaries that decides by the latest response alone.
mappingVariesLatest(cur, gotEP4, ipPortStr) == OptSet(gotEP4 # ipPortStr)

\* ret.MappingVariesByDestIP after an IPv4 response with address ipPortStr
\* that is not the first: true when the address differs from the first one,
\* false when it is equal and the value was not set.
mappingVaries(cur, gotEP4, ipPortStr) ==
    IF gotEP4 # ipPortStr THEN OptSet(TRUE)
    ELSE IF cur = "" THEN OptSet(FALSE)
    ELSE cur

\* A variant of addNodeLatency4 that takes the address of every response as
\* the external address.
addNodeLatency4Latest(st, regionID, ipPortStr, d) ==
    LET st1 == [st EXCEPT !.report.RegionV4Latency = updateLatency(@, regionID, d),
                          !.report.IPv4 = TRUE]
    IN  startHairCheckLocked([st1 EXCEPT !.gotEP4 = ipPortStr,
                                          !.report.GlobalV4 = ipPortStr])

\* The IPv4 case of addNodeLatency's switch.
addNodeLatency4(st, regionID, ipPortStr, d) ==
    LET st1 == [st EXCEPT !.report.RegionV4Latency = updateLatency(@, regionID, d),
                          !.report.IPv4 = TRUE]
    IN  IF st1.gotEP4 = ""
        THEN startHairCheckLocked([st1 EXCEPT !.gotEP4 = ipPortStr,
                                              !.report.GlobalV4 = ipPortStr])
        ELSE [st1 EXCEPT !.report.MappingVariesByDestIP = mappingVaries(@, st1.gotEP4, ipPortStr)]

\* The IPv6 case of addNodeLatency's switch.
addNodeLatency6(st, regionID, ipPortStr, d) ==
    [st EXCEPT !.report.RegionV6Latency = updateLatency(@, regionID, d),
               !.report.IPv6 = TRUE,
               !.report.GlobalV6 = ipPortStr]

\* A variant of addNodeLatency that does not set UDP.
addNodeLatencyNoUDP(st, node, fam, ipPortStr, d) ==
    LET rl == updateLatency(st.report.RegionLatency, node.RegionID, d)
        st1 == [st EXCEPT !.report.RegionLatency = rl,
                          !.timers = addStopTimer(st, rl)]
    IN  IF fam = probeIPv6 THEN addNodeLatency6(st1, node.RegionID, ipPortStr, d)
        ELSE addNodeLatency4(st1, node.RegionID, ipPortStr, d)

\* addNodeLatency for a response whose address ipp has family fam.
addNodeLatency(st, node, fam, ipPortStr, d) ==
    LET rl == updateLatency(st.report.RegionLatency, node.RegionID, d)
        st1 == [st EXCEPT !.report.UDP = TRUE,
                          !.report.RegionLatency = rl,
                          !.timers = addStopTimer(st, rl)]
    IN  IF fam = probeIPv6 THEN addNodeLatency6(st1, node.RegionID, ipPortStr, d)
        ELSE addNodeLatency4(st1, node.RegionID, ipPortStr, d)

\* nodeAddr: whether it may return an address (TRUE) or nil (FALSE).  A node
\* without a literal of the family is resolved by DNS, which may fail.
nodeAddr(n, proto) ==
    LET lit == IF proto = probeIPv4 THEN n.IPv4 ELSE n.IPv6
        fam == IF proto = probeIPv4 THEN "ip4" ELSE "ip6"
    IN  IF lit = "" THEN {TRUE, FALSE}
        ELSE IF lit = fam THEN {TRUE} ELSE {FALSE}

\* The regions the HTTPS fallback measures.
httpsNeed(m, st) ==
    {rid \in DOMAIN m : rid \notin DOMAIN st.report.RegionLatency /\ regionHasDERPNode(m[rid])}

\* Whether every plan set of the invocation is done (wg.DoneChan is closed).
wgDone(st) == \A k \in DOMAIN st.plan : k \in st.cancelled \/ st.ctxDone

\* --------------------------------------------------------------- GetReport

\* A variant of wantFull that decides for a full report every time.
wantFullAlways(nf, now, lf) == TRUE

\* The decision "c.nextFull || now.Sub(c.lastFull) > 5*time.Minute".
wantFull(nf, now, lf) == nf \/ now - lf > fullInterval

\* A variant of nextFullAfter that leaves the request standing.
nextFullKept(full, nf) == nf

\* c.nextFull after the decision: a full report consumes the request.
nextFullAfter(full, nf) == IF full THEN FALSE ELSE nf

\* A variant of concurrentCall that finds no call in progress ever.
concurrentCallNever == FALSE

\* Whether GetReport refuses the call: a call is in progress.
concurrentCall == curState # 0

\* A GetReport call that finds a call in progress returns an error.
GetReportRefused ==
    /\ mu = ""
    /\ concurrentCall
    /\ refused' = TRUE
    /\ UNCHANGED <<pmvars, dm, ifState, callLimit, timeLimit, udp6, mu, clock, nextFull, prev, last, lastFull, curState,
                   nCalls, rs, pc, reader, result, requested, adm, sentAtWait>>

\* The last two admissions after one more.
admitted(a, rec) == IF Len(a) < 2 THEN Append(a, rec) ELSE <<a[2], rec>>

\* GetReport up to the release of c.mu when no call is in progress: the
\* reportState is created and made current; now is the reading of c.timeNow.
GetReportEnter ==
    /\ mu = ""
    /\ ~concurrentCall
    /\ nCalls < callLimit
    /\ \E now \in clock..timeLimit :
        LET full == wantFull(nextFull, now, lastFull)
            lastLocal == IF full THEN <<>> ELSE last
        IN  /\ clock' = now
            /\ nextFull' = nextFullAfter(full, nextFull)
            /\ lastFull' = IF full THEN now ELSE lastFull
            /\ rs' = [NoRS EXCEPT !.incremental = Len(lastLocal) # 0, !.last = lastLocal,
                                   !.old = rs.old]
            /\ adm' = admitted(adm, [start |-> now, full |-> Len(lastLocal) = 0,
                                     decided |-> full, requested |-> requested,
                                     hadLast |-> Len(last) # 0])
    /\ nCalls' = nCalls + 1
    /\ curState' = nCalls + 1
    /\ pc' = "setup"
    /\ requested' = FALSE
    /\ result' = NoResult
    /\ sentAtWait' = FALSE
    /\ refused' = FALSE
    /\ UNCHANGED <<pmvars, dm, ifState, callLimit, timeLimit, udp6, mu, prev, last, reader>>

\* A variant of releaseCurState that leaves the invocation current.
keepCurState(cur) == cur

\* GetReport's deferred function: c.curState is nil when GetReport returns.
releaseCurState(cur) == 0

\* A failure of interfaces.GetState or of a socket bind returns the error; the
\* deferred functions cancel ctx and reset curState.
GetReportFail ==
    /\ mu = ""
    /\ pc = "setup"
    /\ \E e \in {"interfaces", "udp4"} : result' = [NoResult EXCEPT !.err = e]
    /\ rs' = [rs EXCEPT !.ctxDone = TRUE]
    /\ curState' = releaseCurState(curState)
    /\ pc' = "returned"
    /\ UNCHANGED <<pmvars, dm, ifState, callLimit, timeLimit, udp6, mu, clock, nextFull, prev, last, lastFull, nCalls,
                   reader, refused, requested, adm, sentAtWait>>

\* GetReport from interfaces.GetState to the start of the probe sets: rs.pc6
\* is set when the interface state has IPv6 and the bind of the udp6 socket
\* succeeds; the task of probePortMapServices is started on a Client with a
\* PortMapper.
GetReportSetup ==
    /\ pc = "setup"
    /\ \E plan \in makeProbePlan(dm, ifState, rs.last) :
         rs' = [rs EXCEPT !.plan = plan, !.probe = [tx \in TxOf(plan) |-> "delay"],
                          !.pc6 = ifState.HaveV6 /\ udp6]
    /\ probeRun' = IF pmc.netcheck
                   THEN [NoProbeRun EXCEPT !.pc = "launched", !.by = "netcheck"]
                   ELSE probeRun
    /\ pc' = "probing"
    /\ UNCHANGED <<pmc, psr, prober, dm, ifState, callLimit, timeLimit, udp6, mu, clock, nextFull, prev, last,
                   lastFull, curState, nCalls, reader, result, refused, requested, adm, sentAtWait>>

\* The caller's context ends, or the overallProbeTimeout deadline passes.
CtxExpire ==
    /\ Live
    /\ pc # "setup"
    /\ ~rs.ctxDone
    /\ rs' = [rs EXCEPT !.ctxDone = TRUE, !.expiredAt = pc]
    /\ UNCHANGED <<pmvars, dm, ifState, callLimit, timeLimit, udp6, mu, clock, nextFull, prev, last, lastFull, curState,
                   nCalls, pc, reader, result, refused, requested, adm, sentAtWait>>

\* The select that ends the probing phase.
GetReportWait ==
    /\ pc = "probing"
    /\ LET ready == {"stunTimer"} \cup
                    (IF rs.ctxDone THEN {"ctx"} ELSE {}) \cup
                    (IF wgDone(rs) THEN {"wg"} ELSE {}) \cup
                    (IF rs.stopProbeCh THEN {"stopProbeCh"} ELSE {})
       IN  \E b \in ready :
            rs' = [rs EXCEPT !.stopProbeCh = IF b = "stopProbeCh" THEN FALSE ELSE @]
    /\ pc' = "hair"
    /\ UNCHANGED <<pmvars, dm, ifState, callLimit, timeLimit, udp6, mu, clock, nextFull, prev, last, lastFull, curState,
                   nCalls, reader, result, refused, requested, adm, sentAtWait>>

\* The reportState after waitHairCheck's select took the ready case b.
hairResult(st, b) ==
    [st EXCEPT !.report.HairPinning = IF b = "ctx" THEN @ ELSE OptSet(b = "gotHairSTUN"),
               !.gotHairSTUN = IF b = "gotHairSTUN" THEN FALSE ELSE @]

\* A variant of hairCarry that leaves HairPinning as it is.
hairCarryNone(st, lastRep) == st

\* The report of an incremental invocation takes the last report's HairPinning.
hairCarry(st, lastRep) ==
    [st EXCEPT !.report.HairPinning = IF Len(lastRep) # 0 THEN lastRep[1].HairPinning ELSE @]

\* A variant of hairReady without the hairpin timer.
hairReadyEcho(st) == IF st.gotHairSTUN THEN {"gotHairSTUN"} ELSE {}

\* The cases of waitHairCheck's first select that are ready.
hairReady(st) ==
    (IF st.gotHairSTUN THEN {"gotHairSTUN"} ELSE {}) \cup
    (IF st.hairTimeout THEN {"hairTimeout"} ELSE {})

\* waitHairCheck up to its blocking select.  rs.mu is held to the end of the
\* function, so it stays held while the function blocks.
waitHairCheck ==
    /\ pc = "hair"
    /\ rs.mu = ""
    /\ sentAtWait' = rs.sentHairCheck
    /\ IF rs.incremental
       THEN /\ rs' = hairCarry(rs, last)
            /\ pc' = "stopTimers"
       ELSE IF ~rs.sentHairCheck
       THEN /\ rs' = rs
            /\ pc' = "stopTimers"
       ELSE IF hairReady(rs) # {}
       THEN /\ \E b \in hairReady(rs) : rs' = hairResult(rs, b)
            /\ pc' = "stopTimers"
       ELSE /\ rs' = [rs EXCEPT !.mu = "waitHairCheck"]
            /\ pc' = "hairBlocked"
    /\ UNCHANGED <<pmvars, dm, ifState, callLimit, timeLimit, udp6, mu, clock, nextFull, prev, last, lastFull, curState,
                   nCalls, reader, result, refused, requested, adm>>

\* The blocking select of waitHairCheck.
waitHairCheckWake ==
    /\ pc = "hairBlocked"
    /\ \E b \in hairReady(rs) \cup (IF rs.ctxDone THEN {"ctx"} ELSE {}) :
         rs' = [hairResult(rs, b) EXCEPT !.mu = ""]
    /\ pc' = "stopTimers"
    /\ UNCHANGED <<pmvars, dm, ifState, callLimit, timeLimit, udp6, mu, clock, nextFull, prev, last, lastFull, curState,
                   nCalls, reader, result, refused, requested, adm, sentAtWait>>

\* waitPortMap.Wait on a Client with a PortMapper, then stopTimers: every
\* timer of rs.timers that has not fired is stopped.
stopTimers ==
    /\ pc = "stopTimers"
    /\ pmc.netcheck => probeRun.pc = "done"
    /\ rs.mu = ""
    /\ rs' = [rs EXCEPT !.timers =
                  [n \in DOMAIN @ |-> IF @[n].state = "pending"
                                      THEN [@[n] EXCEPT !.state = "stopped"] ELSE @[n]]]
    /\ pc' = "httpsCheck"
    /\ UNCHANGED <<pmvars, dm, ifState, callLimit, timeLimit, udp6, mu, clock, nextFull, prev, last, lastFull, curState,
                   nCalls, reader, result, refused, requested, adm, sentAtWait>>

\* "if !rs.anyUDP() && ctx.Err() == nil": the HTTPS fallback starts one
\* measurement per region of need.
GetReportHTTPSCheck ==
    /\ pc = "httpsCheck"
    /\ rs.mu = ""
    /\ LET need == IF ~rs.report.UDP /\ ~rs.ctxDone THEN httpsNeed(dm, rs) ELSE {}
       IN  /\ rs' = [rs EXCEPT !.need = need]
           /\ pc' = IF need = {} THEN "finish" ELSE "https"
    /\ UNCHANGED <<pmvars, dm, ifState, callLimit, timeLimit, udp6, mu, clock, nextFull, prev, last, lastFull, curState,
                   nCalls, reader, result, refused, requested, adm, sentAtWait>>

\* The reportState after a successful measureHTTPSLatency of region reg that
\* took d over a connection of family fam.
httpsRecord(st, reg, d, fam) ==
    [st EXCEPT !.report.RegionLatency = MapPut(@, reg, d),
               !.report.IPv4 = IF fam = probeIPv4 THEN TRUE ELSE @,
               !.report.IPv6 = IF fam = probeIPv6 THEN TRUE ELSE @]

\* One HTTPS measurement ends, with an error or with a latency; wg.Wait
\* returns after the last one.
GetReportHTTPS ==
    /\ pc = "https"
    /\ \E reg \in rs.need :
         LET left == rs.need \ {reg} IN
         /\ \/ rs' = [rs EXCEPT !.need = left]
            \/ /\ ~rs.ctxDone
               /\ rs.mu = ""
               /\ \E d \in LatVals, fam \in {probeIPv4, probeIPv6} :
                    rs' = [httpsRecord(rs, reg, d, fam) EXCEPT !.need = left]
         /\ pc' = IF left = {} THEN "finish" ELSE "https"
    /\ UNCHANGED <<pmvars, dm, ifState, callLimit, timeLimit, udp6, mu, clock, nextFull, prev, last, lastFull, curState,
                   nCalls, reader, result, refused, requested, adm, sentAtWait>>

\* The reports addReportHistoryAndSetPreferredDERP may make of the clone r.
addReportHistoryAndSetPreferredDERP(prevMap, lastRep, r, now) ==
    {[r EXCEPT !.PreferredDERP = p] : p \in preferredDERP(prevMap, lastRep, r, now)}

\* The end of GetReport: the report is cloned, added to the history, given its
\* PreferredDERP and returned; the deferred functions cancel ctx and reset
\* curState.  The invocation's waits are bounded by overallProbeTimeout and
\* hairpinCheckTimeout, seconds each, so the clock shows the minute of the
\* admission or the next one.
GetReportFinish ==
    /\ mu = ""
    /\ pc = "finish"
    /\ rs.mu = ""
    /\ \E now \in clock..Min(clock + 1, timeLimit) :
       \E r \in addReportHistoryAndSetPreferredDERP(prev, last, rs.report, now) :
         /\ clock' = now
         /\ prev' = retained(prev, r, now)
         /\ last' = <<r>>
         /\ result' = [err |-> "", report |-> r]
    /\ rs' = [rs EXCEPT !.ctxDone = TRUE]
    /\ curState' = releaseCurState(curState)
    /\ pc' = "returned"
    /\ UNCHANGED <<pmvars, dm, ifState, callLimit, timeLimit, udp6, mu, nextFull, lastFull, nCalls, reader, refused,
                   requested, adm, sentAtWait>>

MakeNextReportFull ==
    /\ mu = ""
    /\ nextFull' = TRUE
    /\ requested' = TRUE
    /\ UNCHANGED <<pmvars, dm, ifState, callLimit, timeLimit, udp6, mu, clock, prev, last, lastFull, curState, nCalls, rs,
                   pc, reader, result, refused, adm, sentAtWait>>

\* ---------------------------------------------------------------- runProbe

\* A variant of registerInFlight that leaves the table as it is.
registerNothing(st, tx) == [st EXCEPT !.probe[tx] = "registered"]

\* runProbe registers its callback in rs.inFlight under the transaction id,
\* in a critical section of rs.mu.
registerInFlight(st, tx) == [st EXCEPT !.inFlight = @ \cup {tx}, !.probe[tx] = "registered"]

\* runProbe writes the STUN request to pc4 or pc6.
writeRequest(st, tx) == [st EXCEPT !.probe[tx] = "sent"]

\* Whether the socket runProbe writes a request of family proto to is not
\* nil.
hasConn(st, proto) == proto = probeIPv4 \/ st.pc6

\* runProbe after its delay: probeWouldHelp, nodeAddr, the registration of the
\* callback in rs.inFlight under a fresh transaction id, and the write of the
\* STUN request; the write to a nil rs.pc6 is a run-time panic.
runProbe(tx) ==
    /\ Live
    /\ tx \in DOMAIN rs.probe
    /\ rs.probe[tx] = "delay"
    /\ rs.mu = ""
    /\ LET probe == ProbeOf(rs, tx)
           node == namedNode(dm, probe.node)
       IN  IF ~probeWouldHelp(rs, probe, node)
           THEN /\ rs' = [rs EXCEPT !.cancelled = @ \cup {tx[1]}, !.probe[tx] = "dead"]
                /\ pc' = pc
           ELSE \E ok \in nodeAddr(node, probe.proto) :
                  IF ~ok
                  THEN /\ rs' = [rs EXCEPT !.probe[tx] = "dead"]
                       /\ pc' = pc
                  ELSE IF hasConn(rs, probe.proto)
                  THEN /\ rs' = writeRequest(registerInFlight(rs, tx), tx)
                       /\ pc' = pc
                  ELSE /\ rs' = registerInFlight(rs, tx)
                       /\ pc' = "panic"
    /\ UNCHANGED <<pmvars, dm, ifState, callLimit, timeLimit, udp6, mu, clock, nextFull, prev, last, lastFull, curState,
                   nCalls, reader, result, refused, requested, adm, sentAtWait>>

\* runProbe leaves its delay select by ctx.Done: the set was cancelled or the
\* invocation's context ended.
runProbeCancelled(tx) ==
    /\ Live
    /\ tx \in DOMAIN rs.probe
    /\ rs.probe[tx] = "delay"
    /\ ProbeOf(rs, tx).delay > 0
    /\ tx[1] \in rs.cancelled \/ rs.ctxDone
    /\ rs' = [rs EXCEPT !.probe[tx] = "dead"]
    /\ UNCHANGED <<pmvars, dm, ifState, callLimit, timeLimit, udp6, mu, clock, nextFull, prev, last, lastFull, curState,
                   nCalls, pc, reader, result, refused, requested, adm, sentAtWait>>

\* ------------------------------------------------------- ReceiveSTUNPacket

\* ReceiveSTUNPacket up to the release of c.mu, for the echo of the hairpin
\* probe of the current invocation: handleHairSTUNLocked delivers it to
\* gotHairSTUN (or drops it when the channel is full).
ReceiveHairSTUN(k) ==
    /\ mu = ""
    /\ reader[k].pc = "idle"
    /\ k = probeIPv4
    /\ curState # 0
    /\ rs.sentHairCheck
    /\ rs' = [rs EXCEPT !.gotHairSTUN = TRUE,
                         !.hairEcho = IF @ # "" THEN @
                                      ELSE IF rs.hairTimeout THEN "late" ELSE "first"]
    /\ UNCHANGED <<pmvars, dm, ifState, callLimit, timeLimit, udp6, mu, clock, nextFull, prev, last, lastFull, curState,
                   nCalls, pc, reader, result, refused, requested, adm, sentAtWait>>

\* ReceiveSTUNPacket up to the release of c.mu, for the response to a probe
\* that was sent: the current reportState is read.
ReceiveSTUNPacket(k) ==
    /\ mu = ""
    /\ reader[k].pc = "idle"
    /\ curState # 0
    /\ \E tx \in DOMAIN rs.probe :
         /\ rs.probe[tx] = "sent"
         /\ ProbeOf(rs, tx).proto = k
         /\ reader' = [reader EXCEPT ![k] = [pc |-> "lookup", tx |-> tx]]
    /\ UNCHANGED <<pmvars, dm, ifState, callLimit, timeLimit, udp6, mu, clock, nextFull, prev, last, lastFull, curState,
                   nCalls, rs, pc, result, refused, requested, adm, sentAtWait>>

\* A variant of takeInFlight that leaves the callback in the table.
takeInFlightKept(st, tx) == st

\* The callback of tx is deleted from rs.inFlight, under rs.mu.
takeInFlight(st, tx) == [st EXCEPT !.inFlight = @ \ {tx}]

\* The callback registered by runProbe: addNodeLatency, then cancelSet.
onDone(st, tx, node, fam, ipPortStr, d) ==
    [addNodeLatency(st, node, fam, ipPortStr, d) EXCEPT !.cancelled = @ \cup {tx[1]}]

\* The rest of ReceiveSTUNPacket: the callback of the transaction id is taken
\* out of rs.inFlight and called.
ReceiveSTUNPacketDispatch(k) ==
    /\ reader[k].pc = "lookup"
    /\ LET tx == reader[k].tx
       IN  IF Live /\ tx \in rs.inFlight
           THEN /\ rs.mu = ""
                /\ \E ipPortStr \in EPs(k), d \in LatVals :
                     rs' = onDone(takeInFlight(rs, tx), tx,
                                  namedNode(dm, ProbeOf(rs, tx).node), k, ipPortStr, d)
           ELSE rs' = rs
    /\ reader' = [reader EXCEPT ![k] = NoReader]
    /\ UNCHANGED <<pmvars, dm, ifState, callLimit, timeLimit, udp6, mu, clock, nextFull, prev, last, lastFull, curState,
                   nCalls, pc, result, refused, requested, adm, sentAtWait>>

\* ------------------------------------------------------------------ timers

\* A hairpinCheckTimeout timer of startHairCheckLocked fires and closes
\* hairTimeout.
hairTimerFire ==
    /\ Live
    /\ rs.hairFired < rs.hairSends
    /\ rs' = [rs EXCEPT !.hairTimeout = TRUE, !.hairFired = @ + 1]
    /\ UNCHANGED <<pmvars, dm, ifState, callLimit, timeLimit, udp6, mu, clock, nextFull, prev, last, lastFull, curState,
                   nCalls, pc, reader, result, refused, requested, adm, sentAtWait>>

\* ----------------------------------------------------------- specification

\* One invocation of GetReport with its probes, readers and timers, on a
\* Client that is fresh or has returned one report before.  After GetReport
\* has returned, its context is cancelled and what is left of its tasks acts
\* on the dropped reportState only: the model stops them there.  The
\* specification is of exactly one invocation (callLimit 1) that starts and
\* ends in one minute of the Client's clock (timeLimit 0).
Init ==
    \/ InitFresh(DM1, V4Only, 1, 0)
    \/ InitFresh(DMAvoid, V4Only, 1, 0)
    \/ \E h \in {"", "true"} : InitWarm(DM1, V4Only, 1, 0, 0, EarlierReport(h))

Next ==
    \/ GetReportEnter
    \/ GetReportFail
    \/ GetReportSetup
    \/ CtxExpire
    \/ GetReportWait
    \/ waitHairCheck
    \/ waitHairCheckWake
    \/ stopTimers
    \/ GetReportHTTPSCheck
    \/ GetReportHTTPS
    \/ GetReportFinish
    \/ \E tx \in DOMAIN rs.probe : runProbe(tx)
    \/ \E tx \in DOMAIN rs.probe : runProbeCancelled(tx)
    \/ \E k \in Readers : ReceiveHairSTUN(k)
    \/ \E k \in Readers : ReceiveSTUNPacket(k)
    \/ \E k \in Readers : ReceiveSTUNPacketDispatch(k)
    \/ hairTimerFire

Spec == Init /\ [][Next]_vars

\* One full invocation of GetReport on a fresh Client with IPv4 and IPv6: the
\* readers of pc4 and pc6 both deliver responses.
InitDual == InitFresh(DM46, DualStack, 1, 0)

SpecDual == InitDual /\ [][Next]_vars

\* One full invocation of GetReport on a fresh Client with IPv4 and IPv6 and
\* two regions: three plan sets of one probe each.
InitMixed == InitFresh(DMMixed, DualStack, 1, 0)

SpecMixed == InitMixed /\ [][Next]_vars

\* runProbe from the end of its delay to the registration of its callback.
runProbeRegister(tx) ==
    /\ Live
    /\ tx \in DOMAIN rs.probe
    /\ rs.probe[tx] = "delay"
    /\ rs.mu = ""
    /\ LET probe == ProbeOf(rs, tx)
           node == namedNode(dm, probe.node)
       IN  IF ~probeWouldHelp(rs, probe, node)
           THEN rs' = [rs EXCEPT !.cancelled = @ \cup {tx[1]}, !.probe[tx] = "dead"]
           ELSE \E ok \in nodeAddr(node, probe.proto) :
                  IF ok
                  THEN rs' = registerInFlight(rs, tx)
                  ELSE rs' = [rs EXCEPT !.probe[tx] = "dead"]
    /\ UNCHANGED <<pmvars, dm, ifState, callLimit, timeLimit, udp6, mu, clock, nextFull, prev, last, lastFull, curState,
                   nCalls, pc, reader, result, refused, requested, adm, sentAtWait>>

\* The rest of runProbe: the write of the request, whatever has become of
\* the invocation.
runProbeWrite(tx) ==
    /\ tx \in DOMAIN rs.probe
    /\ rs.probe[tx] = "registered"
    /\ pc # "panic"
    /\ IF hasConn(rs, ProbeOf(rs, tx).proto)
       THEN /\ rs' = writeRequest(rs, tx)
            /\ pc' = pc
       ELSE /\ rs' = rs
            /\ pc' = "panic"
    /\ UNCHANGED <<pmvars, dm, ifState, callLimit, timeLimit, udp6, mu, clock, nextFull, prev, last, lastFull, curState,
                   nCalls, reader, result, refused, requested, adm, sentAtWait>>

\* ReceiveSTUNPacket for the response to a probe that was sent, when no
\* invocation is current: c.curState is nil.
ReceiveSTUNPacketNoState(k) ==
    /\ mu = ""
    /\ reader[k].pc = "idle"
    /\ curState = 0
    /\ \E tx \in DOMAIN rs.probe :
         /\ rs.probe[tx] = "sent"
         /\ ProbeOf(rs, tx).proto = k
         /\ reader' = [reader EXCEPT ![k] = [pc |-> "nostate", tx |-> tx]]
    /\ UNCHANGED <<pmvars, dm, ifState, callLimit, timeLimit, udp6, mu, clock, nextFull, prev, last, lastFull, curState,
                   nCalls, rs, pc, result, refused, requested, adm, sentAtWait>>

\* "if rs == nil { return }".
ReceiveSTUNPacketReturn(k) ==
    /\ reader[k].pc = "nostate"
    /\ reader' = [reader EXCEPT ![k] = NoReader]
    /\ UNCHANGED <<pmvars, dm, ifState, callLimit, timeLimit, udp6, mu, clock, nextFull, prev, last, lastFull, curState,
                   nCalls, rs, pc, result, refused, requested, adm, sentAtWait>>

\* One full invocation of GetReport on a fresh Client with IPv4, with the
\* registration of a probe's callback and the write of its request as two
\* steps, and with the responses that arrive after GetReport has returned.
InitSend == InitFresh(DM46, V4Only, 1, 0)

NextSend ==
    \/ GetReportEnter
    \/ GetReportFail
    \/ GetReportSetup
    \/ CtxExpire
    \/ GetReportWait
    \/ waitHairCheck
    \/ waitHairCheckWake
    \/ stopTimers
    \/ GetReportHTTPSCheck
    \/ GetReportHTTPS
    \/ GetReportFinish
    \/ \E tx \in DOMAIN rs.probe : runProbeRegister(tx)
    \/ \E tx \in DOMAIN rs.probe : runProbeWrite(tx)
    \/ \E tx \in DOMAIN rs.probe : runProbeCancelled(tx)
    \/ \E k \in Readers : ReceiveHairSTUN(k)
    \/ \E k \in Readers : ReceiveSTUNPacket(k)
    \/ \E k \in Readers : ReceiveSTUNPacketDispatch(k)
    \/ \E k \in Readers : ReceiveSTUNPacketNoState(k)
    \/ \E k \in Readers : ReceiveSTUNPacketReturn(k)
    \/ hairTimerFire

SpecSend == InitSend /\ [][NextSend]_vars

\* stopProbes, run by the n-th timer of rs.timers when it fires: a send on
\* stopProbeCh that does not block (the channel holds one value).
stopProbes(n) ==
    /\ Live
    /\ n \in DOMAIN rs.timers
    /\ rs.timers[n].state = "pending"
    /\ rs' = [rs EXCEPT !.timers[n].state = "fired", !.stopProbeCh = TRUE]
    /\ UNCHANGED <<pmvars, dm, ifState, callLimit, timeLimit, udp6, mu, clock, nextFull, prev, last, lastFull, curState,
                   nCalls, pc, reader, result, refused, requested, adm, sentAtWait>>

\* One full invocation of GetReport on a fresh Client with IPv4 and IPv6 and
\* three regions whose nodes answer by IPv6 only, with the early-stop
\* timers.  No IPv4 response arrives, so no hairpin probe is sent and the
\* steps of the hairpin check that follow one cannot occur.
InitStop == InitFresh(DM3, DualStack, 1, 0)

NextStop ==
    \/ GetReportEnter
    \/ GetReportFail
    \/ GetReportSetup
    \/ CtxExpire
    \/ GetReportWait
    \/ waitHairCheck
    \/ stopTimers
    \/ GetReportHTTPSCheck
    \/ GetReportHTTPS
    \/ GetReportFinish
    \/ \E tx \in DOMAIN rs.probe : runProbe(tx)
    \/ \E tx \in DOMAIN rs.probe : runProbeCancelled(tx)
    \/ \E k \in Readers : ReceiveSTUNPacket(k)
    \/ \E k \in Readers : ReceiveSTUNPacketDispatch(k)
    \/ \E n \in DOMAIN rs.timers : stopProbes(n)

SpecStop == InitStop /\ [][NextStop]_vars

\* The RegionLatency maps the probing phase may leave for the relay map m:
\* any set of its regions, each with the same latency (the sequence of
\* calls does not depend on the values).
ProbedLatency(m) ==
    UNION {[ids -> {25 * Millisecond}] : ids \in SUBSET DOMAIN m}

\* GetReport from interfaces.GetState to the end of the HTTPS fallback, by its
\* outcome alone: the report holds some latencies of regions of the map.
GetReportProbed ==
    /\ pc = "setup"
    /\ \E rl \in ProbedLatency(dm) :
         rs' = [rs EXCEPT !.report.RegionLatency = rl]
    /\ pc' = "finish"
    /\ UNCHANGED <<pmvars, dm, ifState, callLimit, timeLimit, udp6, mu, clock, nextFull, prev, last, lastFull,
                   curState, nCalls, reader, result, refused, requested, adm, sentAtWait>>

\* A sequence of GetReport invocations, concurrent calls and
\* MakeNextReportFull calls on one Client; the probing phase of an
\* invocation is taken by its outcome.
InitClient == InitFresh(DM1, V4Only, MaxCalls, MaxTime)

NextClient ==
    \/ GetReportRefused
    \/ GetReportEnter
    \/ GetReportFail
    \/ GetReportProbed
    \/ GetReportFinish
    \/ MakeNextReportFull

SpecClient == InitClient /\ [][NextClient]_vars
\* ------------------------------------------------- portmapper: Client.Probe

\* The time, in ticks of the port mapper's clock, for which a positive
\* sighting of a service is trusted.
trustServiceStillAvailableDuration == 2

\* sawPMPRecently, sawPCPRecently, sawUPnPRecently: the timestamp t of the
\* service is after now - trustServiceStillAvailableDuration.
sawRecently(t, now) == t > now - trustServiceStillAvailableDuration

\* The cache timestamp of service x in the Client c.
sawTime(c, x) ==
    IF x = "PMP" THEN c.pmpPubIPTime
    ELSE IF x = "PCP" THEN c.pcpSawTime
    ELSE c.uPnPSawTime

\* A variant of ProbeBegin that does not consult the cache.
ProbeBeginNoCache(c, by) ==
    LET base == [NoProbeRun EXCEPT !.by = by, !.started = c.now, !.okBefore = c.okSeen]
    IN  IF ~c.gw
        THEN {[base EXCEPT !.pc = "returned", !.err = "ErrGatewayNotFound"]}
        ELSE {[base EXCEPT !.pc = "returned", !.err = "listen"],
              [base EXCEPT !.pc = "reading", !.wire = Services,
                           !.pending = {"PMP", "PCP"}, !.upnp = "running"]}

\* The ways Probe called by `by` may go up to its first ReadFrom: no gateway,
\* a failed bind, or the cache is consulted, the UPnP discovery is started
\* and the PMP and PCP requests are sent for what is not in the cache.
ProbeBegin(c, by) ==
    LET base == [NoProbeRun EXCEPT !.by = by, !.started = c.now, !.okBefore = c.okSeen]
        cached == {x \in Services : sawRecently(sawTime(c, x), c.now)}
    IN  IF ~c.gw
        THEN {[base EXCEPT !.pc = "returned", !.err = "ErrGatewayNotFound"]}
        ELSE {[base EXCEPT !.pc = "returned", !.err = "listen"],
              [base EXCEPT !.pc = "reading",
                           !.res = [x \in Services |-> x \in cached],
                           !.cached = cached,
                           !.wire = Services \ cached,
                           !.pending = {"PMP", "PCP"} \ cached,
                           !.upnp = IF "UPnP" \in cached THEN "none" ELSE "running"]}

\* The result codes a reply of service x may carry.
ResultCodes(x) == IF x = "PCP" THEN {"OK", "NotAuthorized", "other"} ELSE {"OK", "other"}

\* The Client after Probe read a PCP announce reply with result code.
pcpReplyClient(c, code) ==
    [c EXCEPT !.pcpSawTime = c.now,
              !.okSeen["PCP"] = IF code = "OK" THEN c.now ELSE @]

\* The invocation after it read a PCP announce reply with result code.
pcpReply(run, code) ==
    [run EXCEPT !.pcpHeard = TRUE,
                !.res["PCP"] = IF code = "OK" THEN TRUE
                               ELSE IF code = "NotAuthorized" THEN FALSE ELSE @]

\* The Client after Probe read a PMP public-address reply with result code.
pmpReplyClient(c, code) ==
    IF code = "OK" THEN [c EXCEPT !.pmpPubIPTime = c.now, !.okSeen["PMP"] = c.now] ELSE c

\* The invocation after it read a PMP public-address reply with result code.
pmpReply(run, code) ==
    IF code = "OK" THEN [run EXCEPT !.res["PMP"] = TRUE] ELSE run

\* The head of the read loop: nothing more to discover.
probeLoop(run) ==
    IF run.pcpHeard /\ run.res["PMP"] THEN [run EXCEPT !.pc = "returning"] ELSE run

\* A direct call of Probe.
ProbeCall ==
    /\ probeRun.pc \in {"idle", "returned"}
    /\ probeRun.by \in {"", "direct"}
    /\ probeRun' \in ProbeBegin(pmc, "direct")
    /\ UNCHANGED <<dm, ifState, callLimit, timeLimit, udp6, mu, clock, nextFull, prev, last, lastFull, curState,
                   nCalls, rs, pc, reader, result, refused, requested, adm, sentAtWait, pmc, psr,
                   prober>>

\* ReadFrom returns the reply to a request that was sent.
ProbeRead ==
    /\ probeRun.pc = "reading"
    /\ \E x \in probeRun.pending : \E code \in ResultCodes(x) :
         LET run == [probeRun EXCEPT !.pending = @ \ {x}]
         IN  IF x = "PCP"
             THEN /\ pmc' = pcpReplyClient(pmc, code)
                  /\ probeRun' = probeLoop(pcpReply(run, code))
             ELSE /\ pmc' = pmpReplyClient(pmc, code)
                  /\ probeRun' = probeLoop(pmpReply(run, code))
    /\ UNCHANGED <<dm, ifState, callLimit, timeLimit, udp6, mu, clock, nextFull, prev, last, lastFull, curState,
                   nCalls, rs, pc, reader, result, refused, requested, adm, sentAtWait, psr, prober>>

\* A variant of readError that returns the error of ReadFrom as it is.
readErrorKept(run, deadlineExceeded) ==
    [run EXCEPT !.pc = "returning", !.deadline = deadlineExceeded, !.err = "read"]

\* The invocation after ReadFrom failed: the error is dropped when the
\* deadline of ctx is exceeded, and Probe returns.
readError(run, deadlineExceeded) ==
    [run EXCEPT !.pc = "returning", !.deadline = deadlineExceeded,
                !.err = IF deadlineExceeded THEN "" ELSE "read"]

\* ReadFrom returns an error: the socket was closed at the 250 ms deadline
\* (no error of Probe), or it failed otherwise.
ProbeReadError ==
    /\ probeRun.pc = "reading"
    /\ \E deadlineExceeded \in BOOLEAN : probeRun' = readError(probeRun, deadlineExceeded)
    /\ UNCHANGED <<dm, ifState, callLimit, timeLimit, udp6, mu, clock, nextFull, prev, last, lastFull, curState,
                   nCalls, rs, pc, reader, result, refused, requested, adm, sentAtWait, pmc, psr,
                   prober>>

\* The UPnP discovery task of Probe ends.
ProbeUPnP ==
    /\ probeRun.upnp = "running"
    /\ \E hasUPnP \in BOOLEAN :
         IF hasUPnP
         THEN /\ probeRun' = [probeRun EXCEPT !.upnp = "done", !.res["UPnP"] = TRUE]
              /\ pmc' = [pmc EXCEPT !.uPnPSawTime = pmc.now, !.okSeen["UPnP"] = pmc.now]
         ELSE /\ probeRun' = [probeRun EXCEPT !.upnp = "done"]
              /\ pmc' = pmc
    /\ UNCHANGED <<dm, ifState, callLimit, timeLimit, udp6, mu, clock, nextFull, prev, last, lastFull, curState,
                   nCalls, rs, pc, reader, result, refused, requested, adm, sentAtWait, psr, prober>>

\* The deferred functions of Probe: wg.Wait for the UPnP task, then lastProbe
\* is set when there is no error.
ProbeReturn ==
    /\ probeRun.pc = "returning"
    /\ probeRun.upnp # "running"
    /\ probeRun' = [probeRun EXCEPT !.pc = "returned"]
    /\ pmc' = [pmc EXCEPT !.lastProbe = IF probeRun.err = "" THEN pmc.now ELSE @]
    /\ UNCHANGED <<dm, ifState, callLimit, timeLimit, udp6, mu, clock, nextFull, prev, last, lastFull, curState,
                   nCalls, rs, pc, reader, result, refused, requested, adm, sentAtWait, psr, prober>>

\* The port mapper's clock advances.
PMTick ==
    /\ pmc.now < MaxPMTime
    /\ pmc' = [pmc EXCEPT !.now = @ + 1]
    /\ UNCHANGED <<dm, ifState, callLimit, timeLimit, udp6, mu, clock, nextFull, prev, last, lastFull, curState,
                   nCalls, rs, pc, reader, result, refused, requested, adm, sentAtWait, probeRun, psr,
                   prober>>

\* Probe calls on one portmapper.Client whose network does not change.
InitProbe ==
    /\ InitNetcheck(DM1, V4Only, 0, 0)
    /\ \E gw \in BOOLEAN : pmc = NewPMClient(FALSE, gw)
    /\ probeRun = NoProbeRun
    /\ psr = <<>>
    /\ prober = <<>>

NextProbe ==
    \/ ProbeCall
    \/ ProbeRead
    \/ ProbeReadError
    \/ ProbeUPnP
    \/ ProbeReturn
    \/ PMTick

SpecProbe == InitProbe /\ [][NextProbe]_vars

\* ------------------------------------------- netcheck: probePortMapServices

\* A variant of portMapOutcome that leaves the fields unknown after an error.
portMapOutcomeUnknown(st, res, err) ==
    IF err # ""
    THEN [st EXCEPT !.report.UPnP = "", !.report.PMP = "", !.report.PCP = ""]
    ELSE [st EXCEPT !.report.UPnP = OptSet(res["UPnP"]),
                    !.report.PMP = OptSet(res["PMP"]),
                    !.report.PCP = OptSet(res["PCP"])]

\* probePortMapServices after Probe returned res and err: an error is logged,
\* a result is stored in the report.
portMapOutcome(st, res, err) ==
    IF err # "" THEN st
    ELSE [st EXCEPT !.report.UPnP = OptSet(res["UPnP"]),
                    !.report.PMP = OptSet(res["PMP"]),
                    !.report.PCP = OptSet(res["PCP"])]

\* GetReport from interfaces.GetState to waitPortMap.Wait on a Client with a
\* PortMapper: the task of probePortMapServices is started; the probing phase
\* and waitHairCheck are taken by their outcome.
GetReportPortMap ==
    /\ pc = "setup"
    /\ pmc.netcheck
    /\ \E rl \in ProbedLatency(dm) :
         rs' = [rs EXCEPT !.report.RegionLatency = rl]
    /\ probeRun' = [NoProbeRun EXCEPT !.pc = "launched", !.by = "netcheck"]
    /\ pc' = "portmap"
    /\ UNCHANGED <<dm, ifState, callLimit, timeLimit, udp6, mu, clock, nextFull, prev, last, lastFull, curState,
                   nCalls, reader, result, refused, requested, adm, sentAtWait, pmc, psr, prober>>

\* probePortMapServices up to the first ReadFrom of Probe: the three fields
\* of the report are set to false and Probe is called.
probePortMapServices ==
    /\ probeRun.pc = "launched"
    /\ rs.mu = ""
    /\ rs' = [rs EXCEPT !.report.UPnP = OptSet(FALSE),
                        !.report.PMP = OptSet(FALSE),
                        !.report.PCP = OptSet(FALSE)]
    /\ probeRun' \in ProbeBegin(pmc, "netcheck")
    /\ UNCHANGED <<dm, ifState, callLimit, timeLimit, udp6, mu, clock, nextFull, prev, last, lastFull, curState,
                   nCalls, pc, reader, result, refused, requested, adm, sentAtWait, pmc, psr, prober>>

\* probePortMapServices after Probe returned, and waitPortMap.Done.
probePortMapServicesDone ==
    /\ probeRun.pc = "returned"
    /\ probeRun.by = "netcheck"
    /\ rs.mu = ""
    /\ rs' = portMapOutcome(rs, probeRun.res, probeRun.err)
    /\ probeRun' = [probeRun EXCEPT !.pc = "done"]
    /\ UNCHANGED <<dm, ifState, callLimit, timeLimit, udp6, mu, clock, nextFull, prev, last, lastFull, curState,
                   nCalls, pc, reader, result, refused, requested, adm, sentAtWait, pmc, psr, prober>>

\* waitPortMap.Wait returns; stopTimers and the HTTPS fallback are part of
\* the outcome taken by GetReportPortMap.
GetReportWaitPortMap ==
    /\ pc = "portmap"
    /\ probeRun.pc = "done"
    /\ pc' = "finish"
    /\ UNCHANGED <<dm, ifState, callLimit, timeLimit, udp6, mu, clock, nextFull, prev, last, lastFull, curState,
                   nCalls, rs, reader, result, refused, requested, adm, sentAtWait, pmvars>>

\* Two GetReport invocations on a Client with a PortMapper, with or without
\* a gateway.
InitPortMap ==
    /\ InitNetcheck(DM1, V4Only, 2, 0)
    /\ \E gw \in BOOLEAN : pmc = NewPMClient(TRUE, gw)
    /\ probeRun = NoProbeRun
    /\ psr = <<>>
    /\ prober = <<>>

NextPortMap ==
    \/ GetReportEnter
    \/ GetReportFail
    \/ GetReportPortMap
    \/ probePortMapServices
    \/ ProbeRead
    \/ ProbeReadError
    \/ ProbeUPnP
    \/ ProbeReturn
    \/ probePortMapServicesDone
    \/ GetReportWaitPortMap
    \/ GetReportFinish

SpecPortMap == InitPortMap /\ [][NextPortMap]_vars

\* ------------------------------------------- netcheck: one whole invocation

\* The steps of the task that runs GetReport.
GetReportStep ==
    \/ GetReportSetup
    \/ GetReportFail
    \/ GetReportWait
    \/ waitHairCheck
    \/ waitHairCheckWake
    \/ stopTimers
    \/ GetReportHTTPSCheck
    \/ GetReportHTTPS
    \/ GetReportFinish

\* The steps of the task that runs probePortMapServices which do not wait
\* for a reply: the 250 ms deadline of Probe ends its ReadFrom.
portMapStep ==
    \/ probePortMapServices
    \/ ProbeReadError
    \/ ProbeReturn
    \/ probePortMapServicesDone

\* One invocation of GetReport on a fresh Client with a PortMapper, with
\* IPv4 or with no address at all (the plan is empty).
InitLive ==
    /\ \E ifs \in {V4Only, NoAddress} : InitNetcheck(DMOne, ifs, 1, 0)
    /\ pmc = NewPMClient(TRUE, TRUE)
    /\ probeRun = NoProbeRun
    /\ psr = <<>>
    /\ prober = <<>>

NextLive ==
    \/ GetReportEnter
    \/ GetReportStep
    \/ CtxExpire
    \/ \E tx \in DOMAIN rs.probe : runProbe(tx)
    \/ \E tx \in DOMAIN rs.probe : runProbeCancelled(tx)
    \/ \E k \in Readers : ReceiveHairSTUN(k)
    \/ \E k \in Readers : ReceiveSTUNPacket(k)
    \/ \E k \in Readers : ReceiveSTUNPacketDispatch(k)
    \/ hairTimerFire
    \/ portMapStep
    \/ ProbeRead
    \/ ProbeUPnP

\* The tasks are scheduled and the timers fire: the task of GetReport (with
\* its stunTimer and the HTTPS measurements, which end by their timeout),
\* the task of probePortMapServices, the UPnP discovery of Probe, and the
\* hairpinCheckTimeout timer.  Nothing is assumed of the responses, of the
\* probes and of the end of the context.
SpecLive ==
    /\ InitLive
    /\ [][NextLive]_vars
    /\ WF_vars(GetReportStep)
    /\ WF_vars(portMapStep)
    /\ WF_vars(ProbeUPnP)
    /\ WF_vars(hairTimerFire)


\* ------------------------------------------------- the plan of a full report

\* The first GetReport on a Client, for any relay map of PlanMaps and any
\* interface state.
InitPlan ==
    \E m \in PlanMaps : \E ifs \in [HaveV4 : BOOLEAN, HaveV6 : BOOLEAN] : InitFresh(m, ifs, 1, 0)

\* GetReport up to the plan.
NextPlan ==
    \/ GetReportEnter
    \/ GetReportSetup

SpecPlan == InitPlan /\ [][NextPlan]_vars

\* ------------------------------------------- the plan of an incremental report

\* A GetReport within five minutes of a full one that returned any report of
\* PrevReports, for any interface state.
InitIncr ==
    \E r0 \in PrevReports : \E ifs \in [HaveV4 : BOOLEAN, HaveV6 : BOOLEAN] :
        InitWarm(DMIncr, ifs, 1, 0, 0, r0)

SpecIncr == InitIncr /\ [][NextPlan]_vars

\* ------------------------------------- what is left of a returned invocation

\* A transaction id of a probe of the invocation before: transaction ids
\* are random (stun.NewTxID), so no probe of the latest invocation has it.
OldTx == <<SetName(0, probeIPv4), 0>>

\* A variant of isHairSTUN that takes every binding request for the echo.
isHairSTUNAny(cur, tx) == cur # 0

\* handleHairSTUNLocked's test: an invocation is current and the packet is a
\* binding request with its hairTX; the hairTX of invocation n is n.
isHairSTUN(cur, tx) == cur # 0 /\ tx = cur

\* ReceiveSTUNPacket up to the release of c.mu, for a response to a probe of
\* the invocation before: c.curState is read.
StaleResponse(k) ==
    /\ mu = ""
    /\ reader[k].pc = "idle"
    /\ k = probeIPv4
    /\ rs.old.wire = "wire"
    /\ rs' = [rs EXCEPT !.old.wire = IF curState = 0 THEN "nostate" ELSE "dropped"]
    /\ reader' = [reader EXCEPT ![k] = [pc |-> IF curState = 0 THEN "nostate" ELSE "lookup",
                                        tx |-> OldTx]]
    /\ UNCHANGED <<pmvars, dm, ifState, callLimit, timeLimit, udp6, mu, clock, nextFull, prev, last, lastFull, curState,
                   nCalls, pc, result, refused, requested, adm, sentAtWait>>

\* The rest of ReceiveSTUNPacket in a reader that read c.curState before the
\* invocation before returned: the callback is taken out of the inFlight
\* table of that invocation's reportState and called; addNodeLatency may
\* start an early-stop timer.
StaleDispatch(k) ==
    /\ reader[k].pc = "lookupOld"
    /\ \E timer \in {0, 1} :
         rs' = [rs EXCEPT !.old.recorded = TRUE, !.old.timers = Min(@ + timer, 1)]
    /\ reader' = [reader EXCEPT ![k] = NoReader]
    /\ UNCHANGED <<pmvars, dm, ifState, callLimit, timeLimit, udp6, mu, clock, nextFull, prev, last, lastFull, curState,
                   nCalls, pc, result, refused, requested, adm, sentAtWait>>

\* ReceiveSTUNPacket for the echo of the hairpin probe of the invocation
\* before, whose hairTX is 0: handleHairSTUNLocked compares it with the hairTX
\* of the current invocation; a binding request that is not the echo is
\* no STUN response, and ReceiveSTUNPacket returns.
StaleHairSTUN(k) ==
    /\ mu = ""
    /\ reader[k].pc = "idle"
    /\ k = probeIPv4
    /\ rs.old.echo = "wire"
    /\ rs' = [rs EXCEPT !.old.echo = IF curState = 0 THEN "nostate" ELSE "dropped",
                         !.gotHairSTUN = IF isHairSTUN(curState, 0) THEN TRUE ELSE @]
    /\ UNCHANGED <<pmvars, dm, ifState, callLimit, timeLimit, udp6, mu, clock, nextFull, prev, last, lastFull, curState,
                   nCalls, pc, reader, result, refused, requested, adm, sentAtWait>>

\* An early-stop timer of the invocation before fires: stopProbes on its
\* reportState.
StaleTimer ==
    /\ rs.old.timers > 0
    /\ rs' = [rs EXCEPT !.old.timers = @ - 1, !.old.stopProbeCh = TRUE]
    /\ UNCHANGED <<pmvars, dm, ifState, callLimit, timeLimit, udp6, mu, clock, nextFull, prev, last, lastFull, curState,
                   nCalls, pc, reader, result, refused, requested, adm, sentAtWait>>

\* A Client whose first invocation has returned the report of one IPv4
\* response, with what may be left of it, and on which MakeNextReportFull
\* was called since.
InitIso ==
    /\ dm = DMOne
    /\ ifState = V4Only
    /\ callLimit = 1
    /\ timeLimit = 0
    /\ udp6 = TRUE
    /\ mu = ""
    /\ clock = 0
    /\ nextFull = TRUE
    /\ prev = MapPut(EmptyMap, 0, EarlierReport(""))
    /\ last = <<EarlierReport("")>>
    /\ lastFull = 0
    /\ curState = 0
    /\ nCalls = 0
    /\ \E wire \in {"", "wire"}, echo \in {"", "wire"}, timers \in {0, 1} :
         rs = [NoRS EXCEPT !.old = [NoOld EXCEPT !.wire = wire, !.echo = echo, !.timers = timers]]
    /\ pc = "none"
    /\ \E held \in {"idle", "lookupOld"} :
         reader = [k \in Readers |-> IF k = probeIPv4 /\ held = "lookupOld"
                                     THEN [pc |-> "lookupOld", tx |-> OldTx] ELSE NoReader]
    /\ result = NoResult
    /\ refused = FALSE
    /\ requested = TRUE
    /\ adm = <<>>
    /\ sentAtWait = FALSE
    /\ NoPortMapper

NextIso ==
    \/ Next
    \/ \E k \in Readers : ReceiveSTUNPacketReturn(k)
    \/ \E k \in Readers : StaleResponse(k)
    \/ \E k \in Readers : StaleDispatch(k)
    \/ \E k \in Readers : StaleHairSTUN(k)
    \/ StaleTimer

SpecIso == InitIso /\ [][NextIso]_vars

\* ------------------------------------------------ a failed bind of udp6

\* The first GetReport on a Client whose interface state has IPv4 and IPv6
\* while the bind of the udp6 socket fails.
InitSock ==
    /\ dm = DM46
    /\ ifState = DualStack
    /\ callLimit = 1
    /\ timeLimit = 0
    /\ udp6 = FALSE
    /\ mu = ""
    /\ clock = 0
    /\ nextFull = FALSE
    /\ prev = EmptyMap
    /\ last = <<>>
    /\ lastFull = ZeroTime
    /\ curState = 0
    /\ nCalls = 0
    /\ rs = NoRS
    /\ pc = "none"
    /\ reader = [k \in Readers |-> NoReader]
    /\ result = NoResult
    /\ refused = FALSE
    /\ requested = FALSE
    /\ adm = <<>>
    /\ sentAtWait = FALSE
    /\ NoPortMapper

SpecSock == InitSock /\ [][Next]_vars


\* ------------------------------------------------ netcheck: the two mutexes

\* The task that reads the socket of family k and calls ReceiveSTUNPacket.
readerTask(k) == IF k = probeIPv4 THEN "pc4" ELSE "pc6"

\* A variant of unlock that leaves the mutex with its holder.
unlockNever(holder) == holder

\* Mutex.Unlock: the mutex has no holder.
unlock(holder) == ""

\* ReceiveSTUNPacket takes c.mu, for a packet that has arrived: the echo of
\* the hairpin probe or the response to a probe that was sent.
ReceiveSTUNPacketLock(k) ==
    /\ reader[k].pc = "idle"
    /\ mu = ""
    /\ \/ /\ k = probeIPv4
          /\ rs.sentHairCheck
          /\ reader' = [reader EXCEPT ![k] = [pc |-> "hair", tx |-> <<>>]]
       \/ \E tx \in DOMAIN rs.probe :
            /\ rs.probe[tx] = "sent"
            /\ ProbeOf(rs, tx).proto = k
            /\ reader' = [reader EXCEPT ![k] = [pc |-> "locked", tx |-> tx]]
    /\ mu' = readerTask(k)
    /\ UNCHANGED <<pmvars, dm, ifState, callLimit, timeLimit, udp6, clock, nextFull, prev, last, lastFull,
                   curState, nCalls, rs, pc, result, refused, requested, adm, sentAtWait>>

\* ReceiveSTUNPacket under c.mu: handleHairSTUNLocked delivers the echo to
\* gotHairSTUN, or the current reportState is read; c.mu is released.
ReceiveSTUNPacketLocked(k) ==
    /\ reader[k].pc \in {"hair", "locked"}
    /\ IF reader[k].pc = "hair" /\ curState # 0
       THEN /\ rs' = [rs EXCEPT !.gotHairSTUN = TRUE,
                                !.hairEcho = IF @ # "" THEN @
                                             ELSE IF rs.hairTimeout THEN "late" ELSE "first"]
            /\ reader' = [reader EXCEPT ![k] = NoReader]
       ELSE /\ rs' = rs
            /\ reader' = [reader EXCEPT ![k] = IF curState = 0 \/ @.pc = "hair" THEN NoReader
                                               ELSE [@ EXCEPT !.pc = "lookup"]]
    /\ mu' = unlock(mu)
    /\ UNCHANGED <<pmvars, dm, ifState, callLimit, timeLimit, udp6, clock, nextFull, prev, last, lastFull,
                   curState, nCalls, pc, result, refused, requested, adm, sentAtWait>>

\* ReceiveSTUNPacket takes rs.mu.
ReceiveSTUNPacketLookup(k) ==
    /\ reader[k].pc = "lookup"
    /\ rs.mu = ""
    /\ rs' = [rs EXCEPT !.mu = readerTask(k)]
    /\ reader' = [reader EXCEPT ![k].pc = "found"]
    /\ UNCHANGED <<pmvars, dm, ifState, callLimit, timeLimit, udp6, mu, clock, nextFull, prev, last, lastFull,
                   curState, nCalls, pc, result, refused, requested, adm, sentAtWait>>

\* ReceiveSTUNPacket under rs.mu: the callback of the transaction id is taken
\* out of rs.inFlight; rs.mu is released.
ReceiveSTUNPacketTake(k) ==
    /\ reader[k].pc = "found"
    /\ LET tx == reader[k].tx
           ok == Live /\ tx \in rs.inFlight
       IN  /\ rs' = [(IF ok THEN takeInFlight(rs, tx) ELSE rs) EXCEPT !.mu = unlock(@)]
           /\ reader' = [reader EXCEPT ![k] = IF ok THEN [@ EXCEPT !.pc = "onDone"] ELSE NoReader]
    /\ UNCHANGED <<pmvars, dm, ifState, callLimit, timeLimit, udp6, mu, clock, nextFull, prev, last, lastFull,
                   curState, nCalls, pc, result, refused, requested, adm, sentAtWait>>

\* ReceiveSTUNPacket calls the callback it found: addNodeLatency is one
\* critical section of rs.mu.  Every response took 10 ms.
ReceiveSTUNPacketCall(k) ==
    /\ reader[k].pc = "onDone"
    /\ rs.mu = ""
    /\ LET tx == reader[k].tx
       IN  \E ipPortStr \in EPs(k) :
             rs' = onDone(rs, tx, namedNode(dm, ProbeOf(rs, tx).node), k, ipPortStr, 10 * Millisecond)
    /\ reader' = [reader EXCEPT ![k] = NoReader]
    /\ UNCHANGED <<pmvars, dm, ifState, callLimit, timeLimit, udp6, mu, clock, nextFull, prev, last, lastFull,
                   curState, nCalls, pc, result, refused, requested, adm, sentAtWait>>

\* The steps of the reader of family k after a packet has arrived.
readerStep(k) ==
    \/ ReceiveSTUNPacketLocked(k)
    \/ ReceiveSTUNPacketLookup(k)
    \/ ReceiveSTUNPacketTake(k)
    \/ ReceiveSTUNPacketCall(k)

\* One full invocation of GetReport on a fresh Client with IPv4, with every
\* Lock and Unlock of ReceiveSTUNPacket as a step of its own.
InitLock == InitFresh(DM1, V4Only, 1, 0)

NextLock ==
    \/ GetReportEnter
    \/ GetReportStep
    \/ \E tx \in DOMAIN rs.probe : runProbe(tx)
    \/ \E tx \in DOMAIN rs.probe : runProbeCancelled(tx)
    \/ \E k \in Readers : ReceiveSTUNPacketLock(k)
    \/ \E k \in Readers : readerStep(k)
    \/ hairTimerFire

\* The task of GetReport, the hairpin timer and the readers are scheduled;
\* the context's deadline is not relied on.
SpecLock ==
    /\ InitLock
    /\ [][NextLock]_vars
    /\ WF_vars(GetReportStep)
    /\ WF_vars(hairTimerFire)
    /\ \A k \in Readers : WF_vars(readerStep(k))
\* ------------------------------------------------ portmapper: ProbeSubResult

\* The tasks that call PresentBlock and PresentCurrent.
Callers == {1, 2}

\* NewProbeSubResult; notify is the list of the tasks waiting in cond.Wait.
NewProbeSubResult ==
    [completed |-> FALSE, present |-> FALSE, err |-> "", sawTime |-> ZeroTime, notify |-> {}]

\* A task that is in neither PresentBlock nor PresentCurrent; in pc, sub and
\* got are its position ("idle", "waiting" in cond.Wait, "woken",
\* "blockReturned" from PresentBlock, "currentReturned" from PresentCurrent),
\* the ProbeSubResult of its last call and what that call returned.
NoCaller == [pc |-> "idle", sub |-> "", got |-> <<>>]

\* A task of the Prober at pc: sub is the ProbeSubResult its Set is about,
\* cycles observes the number of probe cycles it started after Stop.
NewTask(pc0) == [pc |-> pc0, sub |-> "", cycles |-> 0]

\* NewProber: the stop channel is open, the context is live, the two tasks
\* are started; timer is the set of tasks whose timer has fired.  setter is the ProbeSubResult whose Set is between its
\* unlock and its Broadcast ("" when there is none), latest observes the
\* arguments and the time of the latest Set of each ProbeSubResult, upnpClient is "none",
\* "held" or "terminated" (RequestTermination was called), outcome holds what
\* probePMPAndPCP or the GetStatusInfo loop returned until Set has stored it
\* (uerr is the variable err of the UPnP task).
NewProber ==
    [stop |-> FALSE, ctx |-> "live", timer |-> {}, setter |-> "",
     latest |-> [s \in Services |-> <<>>],
     caller |-> [u \in Callers |-> NoCaller],
     pmpTask |-> NewTask("probe"), upnpTask |-> NewTask("getClient"), upnpClient |-> "none",
     outcome |-> [PMP |-> FALSE, PCP |-> FALSE, UPnP |-> FALSE, err |-> "", uerr |-> "",
                 statusOK |-> FALSE]]

\* A variant of psrSet that does not store present.
psrSetKeepsPresent(p, s, present, err, now) ==
    [p EXCEPT ![s] = [@ EXCEPT !.sawTime = now, !.completed = TRUE, !.err = err]]

\* The critical section of Set on the ProbeSubResult s.
psrSet(p, s, present, err, now) ==
    [p EXCEPT ![s] = [@ EXCEPT !.sawTime = now, !.completed = TRUE, !.err = err,
                               !.present = present]]

\* cond.Broadcast of s: the tasks of the notify list are woken.
psrBroadcast(p, s) == [p EXCEPT ![s].notify = {}]

\* The callers after cond.Broadcast woke the tasks of the notify list of s.
wake(callers, p, s) ==
    [u \in Callers |-> IF u \in p[s].notify THEN [callers[u] EXCEPT !.pc = "woken"]
                       ELSE callers[u]]

\* The loop of PresentBlock for the task u on s: return when completed, wait
\* otherwise.
presentBlockLoop(pr, p, u, s) ==
    IF p[s].completed
    THEN <<[pr EXCEPT !.caller[u] = [pc |-> "blockReturned", sub |-> s,
                                     got |-> <<p[s].present, p[s].err>>]],
           p>>
    ELSE <<[pr EXCEPT !.caller[u] = [pc |-> "waiting", sub |-> s, got |-> <<>>]],
           [p EXCEPT ![s].notify = @ \cup {u}]>>

\* The arguments present and err of a call of Set.
SetArgs == {<<TRUE, "">>, <<FALSE, "">>, <<FALSE, "err">>}

\* Set, up to its unlock, called with present and err on s.
Set(s) ==
    /\ prober.setter = ""
    /\ \E args \in SetArgs : LET present == args[1] err == args[2] IN
         /\ psr' = psrSet(psr, s, present, err, pmc.now)
         /\ prober' = [prober EXCEPT !.setter = s, !.latest[s] = <<present, err, pmc.now>>]
    /\ UNCHANGED <<dm, ifState, callLimit, timeLimit, udp6, mu, clock, nextFull, prev, last, lastFull, curState,
                   nCalls, rs, pc, reader, result, refused, requested, adm, sentAtWait, pmc,
                   probeRun>>

\* The cond.Broadcast that ends Set.
SetBroadcast ==
    /\ prober.setter # ""
    /\ psr' = psrBroadcast(psr, prober.setter)
    /\ prober' = [prober EXCEPT !.setter = "",
                                !.caller = wake(prober.caller, psr, prober.setter)]
    /\ UNCHANGED <<dm, ifState, callLimit, timeLimit, udp6, mu, clock, nextFull, prev, last, lastFull, curState,
                   nCalls, rs, pc, reader, result, refused, requested, adm, sentAtWait, pmc,
                   probeRun>>

\* The task u calls PresentBlock on s.
PresentBlock(u, s) ==
    /\ prober.caller[u].pc \in {"idle", "blockReturned", "currentReturned"}
    /\ prober' = presentBlockLoop(prober, psr, u, s)[1]
    /\ psr' = presentBlockLoop(prober, psr, u, s)[2]
    /\ UNCHANGED <<dm, ifState, callLimit, timeLimit, udp6, mu, clock, nextFull, prev, last, lastFull, curState,
                   nCalls, rs, pc, reader, result, refused, requested, adm, sentAtWait, pmc,
                   probeRun>>

\* The task u returns from cond.Wait in PresentBlock.
PresentBlockWake(u) ==
    /\ prober.caller[u].pc = "woken"
    /\ prober' = presentBlockLoop(prober, psr, u, prober.caller[u].sub)[1]
    /\ psr' = presentBlockLoop(prober, psr, u, prober.caller[u].sub)[2]
    /\ UNCHANGED <<dm, ifState, callLimit, timeLimit, udp6, mu, clock, nextFull, prev, last, lastFull, curState,
                   nCalls, rs, pc, reader, result, refused, requested, adm, sentAtWait, pmc,
                   probeRun>>

\* The task u calls PresentCurrent on s.
PresentCurrent(u, s) ==
    /\ prober.caller[u].pc \in {"idle", "blockReturned", "currentReturned"}
    /\ prober' = [prober EXCEPT !.caller[u] =
                     [pc |-> "currentReturned", sub |-> s,
                      got |-> <<psr[s].present /\ sawRecently(psr[s].sawTime, pmc.now),
                                psr[s].err>>]]
    /\ UNCHANGED <<dm, ifState, callLimit, timeLimit, udp6, mu, clock, nextFull, prev, last, lastFull, curState,
                   nCalls, rs, pc, reader, result, refused, requested, adm, sentAtWait, pmc,
                   probeRun, psr>>

\* The ProbeSubResults that are Set in SpecLatch, and the one its callers use.
LatchSubs == {"PMP", "UPnP"}

CallerSubs == {"UPnP"}

\* Two ProbeSubResults, the tasks that call Set on them taken as one, and two
\* tasks that call PresentBlock and PresentCurrent.
InitLatch ==
    /\ InitNetcheck(DM1, V4Only, 0, 0)
    /\ pmc = NewPMClient(FALSE, TRUE)
    /\ probeRun = NoProbeRun
    /\ psr = [s \in Services |-> NewProbeSubResult]
    /\ prober = NewProber

NextLatch ==
    \/ \E s \in LatchSubs : Set(s)
    \/ SetBroadcast
    \/ \E u \in Callers, s \in CallerSubs : PresentBlock(u, s)
    \/ \E u \in Callers : PresentBlockWake(u)
    \/ \E u \in Callers, s \in CallerSubs : PresentCurrent(u, s)
    \/ PMTick

\* Set goes on to its Broadcast, and a woken task goes on.
SpecLatch ==
    /\ InitLatch
    /\ [][NextLatch]_vars
    /\ WF_vars(SetBroadcast)
    /\ \A u \in Callers : WF_vars(PresentBlockWake(u))

\* ---------------------------------------------------- portmapper: Prober

\* The tasks of a Prober.
Tasks == {"pmpTask", "upnpTask"}

\* Most cycles after Stop that are counted.
MaxCycles == 2

\* The task t after it started a probe cycle.
cycleStarted(pr, t) ==
    [pr EXCEPT ![t].cycles = IF pr.stop THEN Min(@ + 1, MaxCycles) ELSE @]

\* The PMP/PCP task runs probePMPAndPCP, which returns pcp, pmp and err; with
\* an error and the Prober's context past its deadline the task exits.
PMPProbe ==
    /\ prober.pmpTask.pc = "probe"
    /\ \E pcp \in BOOLEAN, pmp \in BOOLEAN, err \in {"", "err"} :
         LET pr == cycleStarted(prober, "pmpTask")
         IN  IF err # "" /\ prober.ctx = "deadline"
             THEN prober' = [pr EXCEPT !.pmpTask.pc = "exited"]
             ELSE prober' = [pr EXCEPT !.pmpTask.pc = "set", !.pmpTask.sub = "PMP",
                                       !.outcome.PCP = pcp, !.outcome.PMP = pmp,
                                       !.outcome.err = err]
    /\ UNCHANGED <<dm, ifState, callLimit, timeLimit, udp6, mu, clock, nextFull, prev, last, lastFull, curState,
                   nCalls, rs, pc, reader, result, refused, requested, adm, sentAtWait, pmc,
                   probeRun, psr>>

\* The UPnP task calls getUPnPClient: without a client it will Set false and
\* exit.
UPnPGetClient ==
    /\ prober.upnpTask.pc = "getClient"
    /\ \E client \in BOOLEAN, err \in {"", "err"} :
         IF client /\ err = ""
         THEN prober' = [prober EXCEPT !.upnpTask.pc = "cycle", !.upnpClient = "held"]
         ELSE /\ ~client
              /\ prober' = [prober EXCEPT !.upnpTask.pc = "set", !.upnpTask.sub = "UPnP",
                                          !.outcome.UPnP = FALSE, !.outcome.uerr = err]
    /\ UNCHANGED <<dm, ifState, callLimit, timeLimit, udp6, mu, clock, nextFull, prev, last, lastFull, curState,
                   nCalls, rs, pc, reader, result, refused, requested, adm, sentAtWait, pmc,
                   probeRun, psr>>

\* A variant of upnpExit that does not call RequestTermination.
upnpExitNoTermination(pr) == [pr EXCEPT !.upnpTask.pc = "exited"]

\* The deferred function of the UPnP task: RequestTermination on its client.
upnpExit(pr) == [pr EXCEPT !.upnpTask.pc = "exited", !.upnpClient = "terminated"]

\* The variable err of the UPnP task after the GetStatusInfo loop of a cycle:
\* err is the value it had before the cycle, statusErr the error a
\* GetStatusInfo call of the cycle returned ("" when every call succeeded),
\* upnpDeadline whether the cycle's own context ended by its deadline.
cycleErr(err, statusErr, upnpDeadline) ==
    IF upnpDeadline THEN ""
    ELSE IF statusErr # "" THEN statusErr
    ELSE err

\* One cycle of the UPnP task: the GetStatusInfo calls, and the exit when the
\* Prober's context is past its deadline.  statusOK observes that every
\* GetStatusInfo call of the cycle succeeded.
UPnPCycle ==
    /\ prober.upnpTask.pc = "cycle"
    /\ \E hasUPnP \in BOOLEAN, statusErr \in {"", "err"}, upnpDeadline \in BOOLEAN :
         LET pr == cycleStarted(prober, "upnpTask")
         IN  IF prober.ctx = "deadline"
             THEN prober' = upnpExit(pr)
             ELSE prober' = [pr EXCEPT !.upnpTask.pc = "set", !.upnpTask.sub = "UPnP",
                                       !.outcome.UPnP = hasUPnP,
                                       !.outcome.uerr = cycleErr(@, statusErr, upnpDeadline),
                                       !.outcome.statusOK = statusErr = ""]
    /\ UNCHANGED <<dm, ifState, callLimit, timeLimit, udp6, mu, clock, nextFull, prev, last, lastFull, curState,
                   nCalls, rs, pc, reader, result, refused, requested, adm, sentAtWait, pmc,
                   probeRun, psr>>

\* The task t calls Set on its ProbeSubResult, up to the unlock.
TaskSet(t) ==
    /\ prober[t].pc = "set"
    /\ LET s == prober[t].sub
           err == IF t = "pmpTask" THEN prober.outcome.err ELSE prober.outcome.uerr
       IN  /\ psr' = psrSet(psr, s, prober.outcome[s], err, pmc.now)
           /\ prober' = [prober EXCEPT ![t].pc = "broadcast",
                                       !.latest[s] = <<prober.outcome[s], err, pmc.now>>]
    /\ UNCHANGED <<dm, ifState, callLimit, timeLimit, udp6, mu, clock, nextFull, prev, last, lastFull, curState,
                   nCalls, rs, pc, reader, result, refused, requested, adm, sentAtWait, pmc,
                   probeRun>>

\* The position of the task t after the Set on s: the PMP/PCP task goes on
\* to the Set of PCP, the UPnP task without a client exits, and otherwise the
\* task starts its timer and waits in its select.
afterSet(pr, t, s) ==
    IF s = "PMP" THEN [pr EXCEPT ![t].pc = "set", ![t].sub = "PCP"]
    ELSE IF t = "upnpTask" /\ pr.upnpClient = "none" THEN [pr EXCEPT ![t].pc = "exited"]
    ELSE [pr EXCEPT ![t].pc = "sleep"]

\* The cond.Broadcast that ends the Set of the task t.
TaskBroadcast(t) ==
    /\ prober[t].pc = "broadcast"
    /\ psr' = psrBroadcast(psr, prober[t].sub)
    /\ prober' = afterSet([prober EXCEPT !.caller = wake(prober.caller, psr, prober[t].sub)],
                          t, prober[t].sub)
    /\ UNCHANGED <<dm, ifState, callLimit, timeLimit, udp6, mu, clock, nextFull, prev, last, lastFull, curState,
                   nCalls, rs, pc, reader, result, refused, requested, adm, sentAtWait, pmc,
                   probeRun>>

\* The timer of the task t fires.  A timer runs for three quarters of
\* trustServiceStillAvailableDuration: a task that waits in its select when
\* the stop channel is closed takes that case before its timer fires.
TimerFire(t) ==
    /\ prober[t].pc = "sleep"
    /\ t \notin prober.timer
    /\ ~prober.stop
    /\ prober' = [prober EXCEPT !.timer = @ \cup {t}]
    /\ UNCHANGED <<dm, ifState, callLimit, timeLimit, udp6, mu, clock, nextFull, prev, last, lastFull, curState,
                   nCalls, rs, pc, reader, result, refused, requested, adm, sentAtWait, pmc,
                   probeRun, psr>>

\* The select of the task t takes a ready case: stop (the task exits) or the
\* timer (the next cycle).
TaskSelect(t) ==
    /\ prober[t].pc = "sleep"
    /\ \E b \in (IF prober.stop THEN {"stop"} ELSE {}) \cup
                (IF t \in prober.timer THEN {"timer"} ELSE {}) :
         LET pr == [prober EXCEPT !.timer = @ \ {t}]
         IN  IF b = "timer"
             THEN prober' = [pr EXCEPT ![t].pc = IF t = "pmpTask" THEN "probe" ELSE "cycle"]
             ELSE IF t = "upnpTask" THEN prober' = upnpExit(pr)
             ELSE prober' = [pr EXCEPT ![t].pc = "exited"]
    /\ UNCHANGED <<dm, ifState, callLimit, timeLimit, udp6, mu, clock, nextFull, prev, last, lastFull, curState,
                   nCalls, rs, pc, reader, result, refused, requested, adm, sentAtWait, pmc,
                   probeRun, psr>>

\* Prober.Stop closes the stop channel.
Stop ==
    /\ ~prober.stop
    /\ prober' = [prober EXCEPT !.stop = TRUE]
    /\ UNCHANGED <<dm, ifState, callLimit, timeLimit, udp6, mu, clock, nextFull, prev, last, lastFull, curState,
                   nCalls, rs, pc, reader, result, refused, requested, adm, sentAtWait, pmc,
                   probeRun, psr>>

\* The context given to NewProber passes its deadline.
ProberCtxDeadline ==
    /\ prober.ctx = "live"
    /\ prober' = [prober EXCEPT !.ctx = "deadline"]
    /\ UNCHANGED <<dm, ifState, callLimit, timeLimit, udp6, mu, clock, nextFull, prev, last, lastFull, curState,
                   nCalls, rs, pc, reader, result, refused, requested, adm, sentAtWait, pmc,
                   probeRun, psr>>

\* The steps of the task t.
TaskStep(t) ==
    \/ t = "pmpTask" /\ PMPProbe
    \/ t = "upnpTask" /\ UPnPGetClient
    \/ t = "upnpTask" /\ UPnPCycle
    \/ TaskSet(t)
    \/ TaskBroadcast(t)
    \/ TaskSelect(t)

\* A Prober from NewProber on.
InitProber ==
    /\ InitNetcheck(DM1, V4Only, 0, 0)
    /\ pmc = NewPMClient(FALSE, TRUE)
    /\ probeRun = NoProbeRun
    /\ psr = [s \in Services |-> NewProbeSubResult]
    /\ prober = NewProber

NextProber ==
    \/ PMPProbe
    \/ UPnPGetClient
    \/ UPnPCycle
    \/ \E t \in Tasks : TaskSet(t)
    \/ \E t \in Tasks : TaskBroadcast(t)
    \/ \E t \in Tasks : TimerFire(t)
    \/ \E t \in Tasks : TaskSelect(t)
    \/ Stop
    \/ ProberCtxDeadline

\* Each task goes on when it can: probePMPAndPCP, getUPnPClient and
\* GetStatusInfo return, and a select with a ready case takes one.
SpecProber ==
    /\ InitProber
    /\ [][NextProber]_vars
    /\ \A t \in Tasks : WF_vars(TaskStep(t))

\* ------------------------------------------- properties of one invocation

\* GetReport returned a report.
Returned == pc = "returned" /\ result.err = ""

\* The transactions of IPv4 probes whose response reached its callback.
answered4 ==
    {tx \in DOMAIN rs.probe :
        /\ rs.probe[tx] = "sent"
        /\ tx \notin rs.inFlight
        /\ ProbeOf(rs, tx).proto = probeIPv4}

regionOf(tx) == namedNode(dm, ProbeOf(rs, tx).node).RegionID

\* C2 as stated: in a returned report every region with a latency of a family
\* has a RegionLatency, and it is not above the family's latency.
C2_AsStated ==
    Returned =>
        \A fam \in {"RegionV4Latency", "RegionV6Latency"} :
            \A id \in DOMAIN result.report[fam] :
                /\ id \in DOMAIN result.report.RegionLatency
                /\ result.report.RegionLatency[id] <= result.report[fam][id]

\* C4 as stated: in a returned report UDP = false implies IPv4 = false and
\* IPv6 = false.
C4_AsStated ==
    (Returned /\ ~result.report.UDP) => (~result.report.IPv4 /\ ~result.report.IPv6)

\* C4: in a returned report UDP = false implies IPv4 = false and IPv6 = false
\* unless the HTTPS fallback measured a latency: then the report has a
\* RegionLatency and no latency of either family.
C4_UDPBeforeFamilies ==
    (Returned /\ ~result.report.UDP /\ (result.report.IPv4 \/ result.report.IPv6)) =>
        /\ DOMAIN result.report.RegionLatency # {}
        /\ DOMAIN result.report.RegionV4Latency = {}
        /\ DOMAIN result.report.RegionV6Latency = {}

\* No STUN response came, the HTTPS fallback measured region 1 over IPv4, and
\* the report was returned.
C4_Witness ==
    /\ Returned
    /\ ~result.report.UDP
    /\ result.report.IPv4
    /\ ~result.report.IPv6
    /\ 1 \in DOMAIN result.report.RegionLatency
    /\ \E tx \in DOMAIN rs.probe : rs.probe[tx] = "sent"

\* Every latency of the map a is in the map b, the same or lower.
kept(a, b) == \A id \in DOMAIN a : id \in DOMAIN b /\ b[id] <= a[id]

\* C7: once the context has ended during the probing phase, every recorded
\* region latency stays recorded (a later response may lower it), and the
\* invocation returns a report holding them, with no error.
C7_ExpiryIsNoError ==
    [][(Live /\ rs.expiredAt = "probing") =>
        /\ kept(rs.report.RegionLatency, rs'.report.RegionLatency)
        /\ (pc' = "returned" =>
              /\ result'.err = ""
              /\ kept(rs.report.RegionLatency, result'.report.RegionLatency))]_vars

\* The context ended during the probing phase after a latency was recorded
\* and with a probe unanswered, and the report was returned with the latency.
C7_Witness ==
    /\ Returned
    /\ rs.expiredAt = "probing"
    /\ DOMAIN result.report.RegionLatency # {}
    /\ rs.inFlight # {}
    /\ \E tx \in DOMAIN rs.probe : rs.probe[tx] = "dead"

\* C8 as stated: in a returned report MappingVariesByDestIP = true implies
\* that two IPv4 probes got a response, from nodes of two distinct regions.
C8_AsStated ==
    (Returned /\ result.report.MappingVariesByDestIP = "true") =>
        \E t1, t2 \in answered4 : t1 # t2 /\ regionOf(t1) # regionOf(t2)

\* C9 as stated: in a returned report HairPinning is unknown only if the
\* report was incremental and the previous report's HairPinning was unknown.
C9_AsStated ==
    (Returned /\ result.report.HairPinning = "") =>
        (rs.incremental /\ rs.last[1].HairPinning = "")

\* C9: in a returned report HairPinning is unknown only if the report was
\* incremental and the previous report's HairPinning was unknown, or the
\* report was full and either no hairpin probe had been sent when the wait
\* for its echo began or the context ended before the wait was over.
C9_HairPinningUnknown ==
    (Returned /\ result.report.HairPinning = "") =>
        IF rs.incremental
        THEN rs.last[1].HairPinning = ""
        ELSE ~sentAtWait \/ rs.expiredAt \in {"probing", "hair", "hairBlocked"}

\* An incremental report took over the decided HairPinning of the report
\* before it.
C9_Witness ==
    /\ Returned
    /\ rs.incremental
    /\ rs.last[1].HairPinning = "true"
    /\ result.report.HairPinning = "true"

\* C12 as stated: with a relay map whose regions all have Avoid set, the plan
\* has no probe set, no probe is sent, and GetReport returns without error a
\* report with UDP = false and no latency; and the plan of a full invocation
\* has probe sets of regions without Avoid only.
C12_AsStated ==
    /\ (\A r \in DOMAIN dm : dm[r].Avoid) =>
          /\ \A tx \in DOMAIN rs.probe : rs.probe[tx] # "sent"
          /\ pc = "returned" =>
                /\ result.err = ""
                /\ ~result.report.UDP
                /\ DOMAIN result.report.RegionLatency = {}
                /\ DOMAIN result.report.RegionV4Latency = {}
                /\ DOMAIN result.report.RegionV6Latency = {}
    /\ (Live /\ ~rs.incremental) => \A k \in DOMAIN rs.plan : ~dm[k[1]].Avoid

\* C15: an incremental invocation never sends the hairpin probe, and the
\* report it returns has the HairPinning of the report the Client held when
\* the invocation returned (the previous report), whatever arrived meanwhile.
C15_HairPinningCarried ==
    [][/\ rs'.incremental => ~rs'.sentHairCheck
       /\ (pc = "finish" /\ pc' = "returned" /\ rs.incremental) =>
            /\ result'.err = ""
            /\ Len(last) = 1
            /\ result'.report.HairPinning = last[1].HairPinning]_vars

\* An incremental invocation got an IPv4 response, which is when a full one
\* sends the hairpin probe, and returned a report with the previous report's
\* HairPinning = true.
C15_Witness ==
    /\ Returned
    /\ rs.incremental
    /\ rs.gotEP4 # ""
    /\ rs.last # <<>>
    /\ rs.last[1].HairPinning = "true"
    /\ result.report.HairPinning = "true"

\* ------------------------------------------ properties of the call sequence

\* The admission before the latest one, and the latest one.
Earlier == adm[1]
Later == adm[2]

\* C1: GetReport is not reentrant.  While an invocation is in progress no
\* other call is admitted (the count of admissions and the current
\* reportState stay, but for the invocation's own end), and a call that is
\* refused leaves the invocation's reportState, position and result as they
\* were; the current reportState is that of the one invocation in progress.
C1_NotReentrant ==
    [][Live =>
        /\ nCalls' = nCalls
        /\ curState = nCalls
        /\ curState' \in {curState, 0}
        /\ (refused' # refused =>
              /\ rs' = rs
              /\ pc' = pc
              /\ curState' = curState
              /\ result' = result)]_vars

\* A call was refused while an invocation that had recorded a latency was in
\* progress.
C1_Witness ==
    /\ refused
    /\ Live
    /\ curState = nCalls
    /\ DOMAIN rs.report.RegionLatency # {}

forcedFull ==
    (Len(adm) >= 1 /\ adm[Len(adm)].requested) =>
        /\ adm[Len(adm)].full
        /\ (pc = "setup" =>
              makeProbePlan(dm, ifState, rs.last) = {makeProbePlanInitial(dm, ifState)})

\* C6 as stated: after MakeNextReportFull the next invocation (calls refused
\* as concurrent aside) is full with the initial plan, and the one after it
\* is incremental again unless 5 minutes have elapsed or MakeNextReportFull
\* was called again.
C6_AsStated ==
    /\ forcedFull
    /\ (Len(adm) = 2 /\ Earlier.requested /\ ~Later.requested
           /\ Later.start - Earlier.start < fullInterval)
       => ~Later.full

\* C6: after MakeNextReportFull the next invocation (calls refused as
\* concurrent aside) is full with the initial plan, and the one after it is
\* incremental again unless 5 minutes have elapsed, MakeNextReportFull was
\* called again, or the Client holds no report when it starts.
C6_RequestConsumed ==
    /\ forcedFull
    /\ (Len(adm) = 2 /\ Earlier.requested /\ ~Later.requested
           /\ Later.start - Earlier.start < fullInterval /\ Later.hadLast)
       => ~Later.full

\* A Client that held a report got a request, ran the next invocation full
\* within 5 minutes of its last full report, and runs the one after that
\* incremental.
C6_Witness ==
    /\ Len(adm) = 2
    /\ Earlier.requested /\ Earlier.hadLast /\ Earlier.full
    /\ ~Later.requested /\ ~Later.full
    /\ Later.start - Earlier.start < fullInterval
    /\ nCalls = 3
    /\ Later.start <= fullInterval
\* ------------------------------------------------ properties of two readers

\* C13: a transaction id enters rs.inFlight once, when its probe is sent; a
\* reader that finds the id of its response in the table takes it out and
\* runs the callback (UDP is set, the probe set is cancelled); a reader
\* whose response has an id that is not in the table changes nothing.  So
\* the callback of an id runs at most once in an invocation, whatever the
\* two readers deliver and however often.
C13_OneShot ==
    [][/\ \A k \in Readers :
            (reader[k].pc = "lookup" /\ reader'[k].pc = "idle") =>
                LET tx == reader[k].tx
                IN  IF Live /\ tx \in rs.inFlight
                    THEN /\ tx \notin rs'.inFlight
                         /\ rs'.report.UDP
                         /\ tx[1] \in rs'.cancelled
                    ELSE rs' = rs
       /\ \A tx \in rs'.inFlight \ rs.inFlight :
            /\ tx \in DOMAIN rs.probe
            /\ rs.probe[tx] = "delay"
            /\ rs'.probe[tx] = "sent"
       /\ \A tx \in DOMAIN rs.probe :
            (rs.probe[tx] # "delay" /\ nCalls' = nCalls) => rs'.probe[tx] = rs.probe[tx]]_vars

\* Both readers are inside ReceiveSTUNPacket: the reader of pc4 with a second
\* response to a probe whose callback has run, the reader of pc6 with the
\* response to a probe whose callback is in the table.
C13_Witness ==
    /\ Live
    /\ reader[probeIPv4].pc = "lookup"
    /\ rs.probe[reader[probeIPv4].tx] = "sent"
    /\ reader[probeIPv4].tx \notin rs.inFlight
    /\ reader[probeIPv6].pc = "lookup"
    /\ reader[probeIPv6].tx \in rs.inFlight

\* C14 as stated, for a returned full report whose hairpin probe was sent
\* before waitHairCheck ran: if the echo came before the hairpin timer fired,
\* HairPinning is true; if no echo came and the context did not end first,
\* HairPinning is false.
C14_AsStated ==
    (Returned /\ ~rs.incremental /\ sentAtWait) =>
        /\ rs.hairEcho = "first" => result.report.HairPinning = "true"
        /\ (rs.hairEcho = "" /\ rs.expiredAt = "") => result.report.HairPinning = "false"
\* ------------------------------------------------- properties of the port mapper

\* C16: the task of probePortMapServices changes nothing of the reportState
\* but the fields UPnP, PMP and PCP of the report; an invocation that has
\* started the task returns a report and no error; and when Probe failed,
\* the report has the three fields false and is otherwise what the probing
\* made it.
C16_PortMapFailureIsNoError ==
    [][/\ (probeRun' # probeRun /\ pc' = pc) =>
            rs' = [rs EXCEPT !.report.UPnP = rs'.report.UPnP,
                             !.report.PMP = rs'.report.PMP,
                             !.report.PCP = rs'.report.PCP]
       /\ (pc = "portmap" /\ pc' # pc) => pc' = "finish"
       /\ (pc = "finish" /\ pc' # pc) =>
            /\ pc' = "returned"
            /\ result'.err = ""
            /\ [result'.report EXCEPT !.PreferredDERP = 0] = rs.report
            /\ probeRun.err # "" =>
                 /\ result'.report.UPnP = "false"
                 /\ result'.report.PMP = "false"
                 /\ result'.report.PCP = "false"]_vars

\* Probe found no gateway, and GetReport returned a report with the three
\* fields false and a latency of region 1.
C16_Witness ==
    /\ Returned
    /\ probeRun.by = "netcheck"
    /\ probeRun.err = "ErrGatewayNotFound"
    /\ result.report.UPnP = "false"
    /\ result.report.PMP = "false"
    /\ result.report.PCP = "false"
    /\ 1 \in DOMAIN result.report.RegionLatency

\* The services of which a Probe read an OK reply less than
\* trustServiceStillAvailableDuration before the current Probe started.
seenBefore ==
    {x \in Services :
        /\ probeRun.okBefore[x] # ZeroTime
        /\ probeRun.started - probeRun.okBefore[x] < trustServiceStillAvailableDuration}

\* C17 as stated: a Probe that started within
\* trustServiceStillAvailableDuration of an OK reply of service X sends no
\* request for X and reports X = true.
C17_AsStated ==
    \A x \in seenBefore :
        /\ probeRun.pc # "idle" => x \notin probeRun.wire
        /\ probeRun.pc = "returned" => probeRun.res[x]

\* C17: a Probe that started within trustServiceStillAvailableDuration of an
\* OK reply of service X sends no request for X and, unless it could not
\* bind its socket, reports X = true.
C17_PositiveCache ==
    \A x \in seenBefore :
        /\ probeRun.pc # "idle" => x \notin probeRun.wire
        /\ (probeRun.pc = "returned" /\ probeRun.err # "listen") => probeRun.res[x]

\* A Probe that started one tick after an OK reply of PMP has returned
\* PMP = true without an error, having sent the PCP request only.
C17_Witness ==
    /\ probeRun.pc = "returned"
    /\ probeRun.err = ""
    /\ "PMP" \in seenBefore
    /\ probeRun.started = probeRun.okBefore["PMP"] + 1
    /\ probeRun.res["PMP"]
    /\ "PMP" \notin probeRun.wire
    /\ "PCP" \in probeRun.wire

\* C18 as stated: the PCP last-seen timestamp is the time of the last PCP
\* reply with result OK (a reply with NotAuthorized does not update it), and
\* a Probe takes PCP = true from the cache only within
\* trustServiceStillAvailableDuration of a reply with result OK.
C18_AsStated ==
    /\ pmc.pcpSawTime = pmc.okSeen["PCP"]
    /\ (probeRun.pc # "idle" /\ "PCP" \in probeRun.cached) => "PCP" \in seenBefore

\* The task u is inside PresentBlock.
blocked(u) == prober.caller[u].pc \in {"waiting", "woken"}

\* C19: a ProbeSubResult that is completed stays completed; PresentBlock
\* returns only when a Set has been called on its ProbeSubResult, with the
\* arguments of the latest Set; PresentCurrent returns the error of the
\* latest Set and present = true only if the latest Set had present = true
\* and is not older than trustServiceStillAvailableDuration; a task waiting
\* in PresentBlock is on the notify list, and after a Set the Broadcast is
\* still to come; and every task inside PresentBlock on a completed
\* ProbeSubResult returns.
C19_Latch ==
    /\ [][/\ \A s \in Services : psr[s].completed => psr'[s].completed
          /\ \A u \in Callers :
                LET s == prober'.caller[u].sub
                    latest == prober.latest[s]
                    got == prober'.caller[u].got
                IN  /\ (prober'.caller[u].pc = "blockReturned" /\ prober'.caller[u] # prober.caller[u]) =>
                         /\ latest # <<>>
                         /\ got = <<latest[1], latest[2]>>
                    /\ (prober'.caller[u].pc = "currentReturned" /\ prober'.caller[u] # prober.caller[u]) =>
                         IF latest = <<>> THEN got = <<FALSE, "">>
                         ELSE /\ got[2] = latest[2]
                              /\ got[1] => latest[1]
                              /\ pmc.now - latest[3] > trustServiceStillAvailableDuration => ~got[1]]_vars
    /\ [](\A u \in Callers :
            prober.caller[u].pc = "waiting" =>
                /\ u \in psr[prober.caller[u].sub].notify
                /\ psr[prober.caller[u].sub].completed => prober.setter = prober.caller[u].sub)
    /\ \A u \in Callers :
          (blocked(u) /\ psr[prober.caller[u].sub].completed) ~> (prober.caller[u].pc = "blockReturned")

\* Both tasks called PresentBlock on the ProbeSubResult of UPnP before its
\* first Set and have returned what Set stored; the latest Set is now older
\* than trustServiceStillAvailableDuration.
C19_Witness ==
    /\ \A u \in Callers :
          /\ prober.caller[u].pc = "blockReturned"
          /\ prober.caller[u].sub = "UPnP"
          /\ prober.caller[u].got = <<TRUE, "">>
    /\ prober.latest["UPnP"] = <<TRUE, "", 0>>
    /\ prober.latest["PMP"] = <<>>
    /\ pmc.now > trustServiceStillAvailableDuration

\* C20: a task that has exited stays exited; a task starts at most one probe
\* cycle after Stop, and none after its select took the stop case; the UPnP
\* task that exits after it obtained a client has called RequestTermination;
\* and after Stop both tasks exit.
C20_ProberStops ==
    /\ [][\A t \in Tasks :
            /\ prober[t].pc = "exited" => prober'[t] = prober[t]
            /\ prober'[t].cycles <= 1
            /\ (prober[t].pc = "sleep" /\ prober.stop /\ t \notin prober.timer
                    /\ prober'[t] # prober[t]) => prober'[t].pc = "exited"]_vars
    /\ [](prober.upnpTask.pc = "exited" => prober.upnpClient \in {"none", "terminated"})
    /\ [][prober.upnpClient # "none" => prober'.upnpClient # "none"]_vars
    /\ prober.stop ~> (\A t \in Tasks : prober[t].pc = "exited")

\* Stop was called while both tasks waited in their select with the timer of
\* the PMP/PCP task fired: that task ran one more cycle, and both have
\* exited, the UPnP task with RequestTermination on its client.
C20_Witness ==
    /\ prober.stop
    /\ \A t \in Tasks : prober[t].pc = "exited"
    /\ prober.pmpTask.cycles = 1
    /\ prober.upnpTask.cycles = 0
    /\ prober.upnpClient = "terminated"
    /\ prober.ctx = "live"

\* ------------------------------------------ the preferred region, by itself

\* Latencies of the reports given to addReportHistoryAndSetPreferredDERP, in
\* nanoseconds.
PrefLats ==
    {50 * Millisecond, 59 * Millisecond, 61 * Millisecond, 72 * Millisecond,
     90 * Millisecond, 60 * Millisecond + 1, 90 * Millisecond + 2}

PrefLatency == UNION {[ids -> PrefLats] : ids \in SUBSET DOMAIN DM2}

\* An invocation on the relay map DM2 that is about to clone its report, with
\* the latencies rl, at time now, on a Client with the history prevMap and the
\* last report lastRep.
InitFinishing(prevMap, lastRep, rl, now) ==
    /\ dm = DM2
    /\ ifState = V4Only
    /\ callLimit = 1
    /\ timeLimit = now
    /\ udp6 = TRUE
    /\ mu = ""
    /\ clock = now
    /\ nextFull = FALSE
    /\ prev = prevMap
    /\ last = lastRep
    /\ lastFull = IF Len(lastRep) = 0 THEN now ELSE 0
    /\ curState = 1
    /\ nCalls = 1
    /\ rs = [NoRS EXCEPT !.incremental = Len(lastRep) # 0 /\ now <= fullInterval,
                         !.last = IF now <= fullInterval THEN lastRep ELSE <<>>,
                         !.report.RegionLatency = rl,
                         !.ctxDone = TRUE, !.expiredAt = "probing"]
    /\ pc = "finish"
    /\ reader = [k \in Readers |-> NoReader]
    /\ result = NoResult
    /\ refused = FALSE
    /\ requested = FALSE
    /\ adm = <<[start |-> now, full |-> ~rs.incremental, decided |-> ~rs.incremental,
                requested |-> FALSE, hadLast |-> Len(lastRep) # 0]>>
    /\ sentAtWait = FALSE
    /\ NoPortMapper

\* The Client holds no report, or the report r0 of time 0 that an invocation
\* on a fresh Client returns for some latencies; the current invocation ends
\* within maxAge of it or after.
InitPref ==
    \E rl \in PrefLatency, now \in {1, maxAge, MaxTime} :
        \/ InitFinishing(EmptyMap, <<>>, rl, now)
        \/ \E rl0 \in PrefLatency :
           \E r0 \in addReportHistoryAndSetPreferredDERP(
                         EmptyMap, <<>>, [newReport EXCEPT !.RegionLatency = rl0], 0) :
               InitFinishing(MapPut(EmptyMap, 0, r0), <<r0>>, rl, now)

NextPref == GetReportFinish

SpecPref == InitPref /\ [][NextPref]_vars

\* C3: the PreferredDERP of a returned report is 0 or a key of the report's
\* RegionLatency, whatever the earlier reports were.
C3_PreferredIsMeasured ==
    (pc = "returned" /\ result.err = "") =>
        \/ result.report.PreferredDERP = 0
        \/ result.report.PreferredDERP \in DOMAIN result.report.RegionLatency

\* The stickiness rule kept region 1, preferred by the report before, although
\* region 2 has the lower latency in the returned report.
C3_Witness ==
    /\ pc = "returned"
    /\ 0 \in DOMAIN prev
    /\ prev[0].PreferredDERP = 1
    /\ result.report.PreferredDERP = 1
    /\ DOMAIN result.report.RegionLatency = {1, 2}
    /\ result.report.RegionLatency[2] < result.report.RegionLatency[1]

\* The best latency of region id over the history h (time => report).
bestOver(h, id) ==
    LET ds == {h[t].RegionLatency[id] : t \in {u \in DOMAIN h : id \in DOMAIN h[u].RegionLatency}}
    IN  CHOOSE d \in ds : \A e \in ds : d <= e

\* The lowest of the best latencies, over the history h, of the regions ids.
lowestBest(h, ids) ==
    CHOOSE d \in {bestOver(h, id) : id \in ids} : \A id \in ids : d <= bestOver(h, id)

\* The step that returns a report on a Client whose last report preferred a
\* region that has a latency in the current report.
stickyCase ==
    /\ pc = "finish"
    /\ pc' = "returned"
    /\ Len(last) # 0
    /\ last[1].PreferredDERP \in DOMAIN rs.report.RegionLatency

\* C10 as stated: the previous preferred region R is kept when the lowest
\* bestRecent latency is greater than 2/3 of R's current latency, and
\* otherwise the region with the lowest bestRecent latency is preferred.
C10_AsStated ==
    [][stickyCase =>
        LET R == last[1].PreferredDERP
            L == rs.report.RegionLatency[R]
            ids == DOMAIN rs.report.RegionLatency
            bestAny == lowestBest(prev', ids)
            chosen == last'[1].PreferredDERP
        IN  IF 3 * bestAny > 2 * L
            THEN chosen = R
            ELSE chosen \in ids /\ bestOver(prev', chosen) = bestAny]_vars

\* C10: the previous preferred region R is kept when the lowest bestRecent
\* latency is greater than twice the integer third of R's current latency in
\* nanoseconds, and otherwise the region with the lowest bestRecent latency
\* is preferred.
C10_Stickiness ==
    [][stickyCase =>
        LET R == last[1].PreferredDERP
            L == rs.report.RegionLatency[R]
            ids == DOMAIN rs.report.RegionLatency
            bestAny == lowestBest(prev', ids)
            chosen == last'[1].PreferredDERP
        IN  IF bestAny > 2 * (L \div 3)
            THEN chosen = R
            ELSE chosen \in ids /\ bestOver(prev', chosen) = bestAny]_vars

\* With region 1 preferred before and now at 90 ms, region 2 at 61 ms did not
\* take over.
C10_Witness ==
    /\ pc = "returned"
    /\ 0 \in DOMAIN prev
    /\ prev[0].PreferredDERP = 1
    /\ 2 \notin DOMAIN prev[0].RegionLatency
    /\ result.report.RegionLatency = MapPut(MapPut(EmptyMap, 1, 90 * Millisecond), 2, 61 * Millisecond)
    /\ result.report.PreferredDERP = 1

\* The RegionLatency maps of the reports of the history h, other than one of
\* time now, that are no older than maxAge at time now, and the map rl of
\* the current report.
window(h, rl, now) ==
    {h[t].RegionLatency : t \in {u \in DOMAIN h : u # now /\ now - u <= maxAge}} \cup {rl}

\* The lowest latency of region id in the maps w that have it.
bestIn(w, id) ==
    LET ds == {m[id] : m \in {x \in w : id \in DOMAIN x}}
    IN  CHOOSE d \in ds : \A e \in ds : d <= e

\* C11: when GetReport returns, the history holds the returned report and
\* the earlier reports no older than 5 minutes, and no other; and unless the
\* stickiness rule keeps the previous preferred region, PreferredDERP is a
\* region of the report's RegionLatency whose best latency over that window
\* is the lowest among the regions of the report (0 when there is none).
C11_BestRecent ==
    [][(pc = "finish" /\ pc' = "returned") =>
        LET rl == rs.report.RegionLatency
            ids == DOMAIN rl
            now == clock'
            w == window(prev, rl, now)
            chosen == result'.report.PreferredDERP
            R == IF Len(last) = 0 THEN 0 ELSE last[1].PreferredDERP
            lowest == CHOOSE d \in {bestIn(w, id) : id \in ids} :
                          \A id \in ids : d <= bestIn(w, id)
            sticky == R # 0 /\ R \in ids /\ lowest > 2 * (rl[R] \div 3)
        IN  /\ DOMAIN prev' = {t \in DOMAIN prev : now - t <= maxAge} \cup {now}
            /\ prev'[now] = result'.report
            /\ \A t \in DOMAIN prev' \ {now} : prev'[t] = prev[t]
            /\ last' = <<result'.report>>
            /\ result'.report.RegionLatency = rl
            /\ (ids = {} => chosen = 0)
            /\ ((ids # {} /\ ~sticky) => (chosen \in ids /\ bestIn(w, chosen) = lowest))]_vars

\* The report of time 0, which had region 1 at 50 ms and preferred it, is
\* older than 5 minutes and gone from the history; the returned report has
\* region 1 at 90 ms and region 2 at 59 ms and prefers region 2.
C11_Witness ==
    /\ pc = "returned"
    /\ DOMAIN prev = {MaxTime}
    /\ adm[1].hadLast
    /\ result.report.RegionLatency =
           MapPut(MapPut(EmptyMap, 1, 90 * Millisecond), 2, 59 * Millisecond)
    /\ result.report.PreferredDERP = 2
\* ------------------------------------------------ properties of the probes

\* The reader of family k ends ReceiveSTUNPacket in this step, with a
\* response whose transaction id it looked up.
dispatches(k) == reader[k].pc = "lookup" /\ reader'[k].pc = "idle"

\* Cancellation of a set by a response: the reader that finds the callback
\* of a probe runs it, and the set of the probe is cancelled.
cancelOnResponse ==
    \A k \in Readers :
        (dispatches(k) /\ Live /\ reader[k].tx \in rs.inFlight) =>
            reader[k].tx[1] \in rs'.cancelled

\* Cancellation of a set by probeWouldHelp: a probe of a live set that leaves
\* its delay when it would add no information cancels its set.
cancelOnNoHelp ==
    \A tx \in DOMAIN rs.probe :
        (/\ nCalls' = nCalls
         /\ rs.probe[tx] = "delay" /\ rs'.probe[tx] # "delay"
         /\ tx[1] \notin rs.cancelled /\ ~rs.ctxDone
         /\ ~probeWouldHelp(rs, ProbeOf(rs, tx), namedNode(dm, ProbeOf(rs, tx).node)))
        => tx[1] \in rs'.cancelled

\* A step cancels at most one set and leaves the probes of the other sets
\* as they are.
cancelIsolated ==
    nCalls' = nCalls =>
        /\ Cardinality(rs'.cancelled \ rs.cancelled) <= 1
        /\ \A s \in rs'.cancelled \ rs.cancelled :
             \A tx \in DOMAIN rs.probe : tx[1] # s => rs'.probe[tx] = rs.probe[tx]

\* A probe of a cancelled set that is still in its delay is not sent.
cancelledNotSent ==
    \A tx \in DOMAIN rs.probe :
        (/\ nCalls' = nCalls
         /\ rs.probe[tx] = "delay" /\ ProbeOf(rs, tx).delay > 0
         /\ tx[1] \in rs.cancelled)
        => rs'.probe[tx] # "sent"

\* The response to a probe whose set is cancelled leaves the report as it is.
cancelledNoUpdate ==
    \A k \in Readers :
        (dispatches(k) /\ Live /\ reader[k].tx[1] \in rs.cancelled) =>
            rs'.report = rs.report

\* C21 as stated: a response to a probe of set S, and a probe of S that
\* would not help, cancel S and no other set; after that no probe of S that
\* is still in its delay is sent, and the response to a probe of S that was
\* sent before the cancellation does not change the report.
C21_AsStated ==
    [][/\ cancelOnResponse
       /\ cancelOnNoHelp
       /\ cancelIsolated
       /\ cancelledNotSent
       /\ cancelledNoUpdate]_vars

\* The probe adds no information: the claim's condition, on the report.
addsNothing(st, probe, node) ==
    /\ node.RegionID \in DOMAIN st.report.RegionLatency
    /\ probe.proto = probeIPv6 => DOMAIN st.report.RegionV6Latency # {}
    /\ probe.proto = probeIPv4 => st.report.MappingVariesByDestIP # ""

\* The probe tx leaves its delay in this step.
leavesDelay(tx) == nCalls' = nCalls /\ rs.probe[tx] = "delay" /\ rs'.probe[tx] # "delay"

\* C22 as stated: a probe that adds no information is skipped and its set
\* cancelled; every other probe is sent.
C22_AsStated ==
    [][\A tx \in DOMAIN rs.probe :
         leavesDelay(tx) =>
            LET probe == ProbeOf(rs, tx)
                node == namedNode(dm, probe.node)
            IN  IF addsNothing(rs, probe, node)
                THEN rs'.probe[tx] = "dead" /\ tx[1] \in rs'.cancelled
                ELSE rs'.probe[tx] = "sent"]_vars

\* C22: a probe that leaves its delay is skipped and cancels its set exactly
\* when it adds no information (its region has a latency, RegionV6Latency is
\* not empty if it is an IPv6 probe, MappingVariesByDestIP is decided if it
\* is an IPv4 probe).  A probe that would add information is sent, with its
\* callback in the table, unless its set was cancelled or the context ended
\* during its delay, or no address of its family is found for its node: it
\* is then dropped, and its set is not cancelled by it.
C22_SkipExactly ==
    [][\A tx \in DOMAIN rs.probe :
         leavesDelay(tx) =>
            LET probe == ProbeOf(rs, tx)
                node == namedNode(dm, probe.node)
                none == addsNothing(rs, probe, node)
                ended == probe.delay > 0 /\ (tx[1] \in rs.cancelled \/ rs.ctxDone)
                noAddr == FALSE \in nodeAddr(node, probe.proto)
            IN  /\ rs'.probe[tx] = "sent" =>
                     ~none /\ tx \in rs'.inFlight /\ rs'.cancelled = rs.cancelled
                /\ rs'.probe[tx] = "dead" =>
                     \/ none /\ tx[1] \in rs'.cancelled
                     \/ (ended \/ (~none /\ noAddr)) /\ rs'.cancelled = rs.cancelled
                /\ (none /\ ~ended) => rs'.probe[tx] = "dead" /\ tx[1] \in rs'.cancelled
                /\ (~none /\ ~ended /\ ~noAddr) => rs'.probe[tx] = "sent"
                /\ rs'.cancelled # rs.cancelled => none]_vars

\* The only probe of a set was skipped and cancelled the set: the set is
\* cancelled and nothing of it was sent, before the context ended.
C22_Witness ==
    /\ Live
    /\ ~rs.ctxDone
    /\ \E s \in rs.cancelled :
         \A tx \in DOMAIN rs.probe : tx[1] = s => rs.probe[tx] = "dead"

\* The request of tx is written in this step.
written(tx) == rs.probe[tx] # "sent" /\ rs'.probe[tx] = "sent"

\* Insertion before the write, removal by the reader that finds the entry:
\* the callback of a request is in the table when the request is written; an
\* entry leaves the table only in the step of a reader that looked its id up
\* and found it, and that reader runs the callback.
insertedThenRemovedOnce ==
    /\ \A tx \in DOMAIN rs.probe :
         (nCalls' = nCalls /\ written(tx)) => tx \in rs.inFlight /\ tx \in rs'.inFlight
    /\ \A tx \in rs.inFlight \ rs'.inFlight :
         nCalls' = nCalls =>
            \E k \in Readers : dispatches(k) /\ reader[k].tx = tx /\ rs'.report.UDP
    /\ \A k \in Readers :
         (dispatches(k) /\ Live /\ reader[k].tx \in rs.inFlight) =>
            reader[k].tx \notin rs'.inFlight

callback4(k) ==
    /\ k = probeIPv4
    /\ dispatches(k)
    /\ Live
    /\ reader[k].tx \in rs.inFlight

\* MappingVariesByDestIP after a later IPv4 response with address ipp.
laterMapping(st, ipp) ==
    IF ipp # st.gotEP4 THEN "true"
    ELSE IF st.report.MappingVariesByDestIP = "" THEN "false"
    ELSE st.report.MappingVariesByDestIP

\* C24: within one invocation the address of the first IPv4 response is
\* stored in gotEP4 and GlobalV4, which never change after that; the
\* hairpin probe is written at most once and its timer closes hairTimeout at
\* most once; every later IPv4 response sets MappingVariesByDestIP to true
\* when its address differs from gotEP4 and to false when it is equal and
\* the value was unknown.
C24_FirstEndpoint ==
    [][nCalls' = nCalls =>
        /\ rs.gotEP4 # "" =>
             rs'.gotEP4 = rs.gotEP4 /\ rs'.report.GlobalV4 = rs.report.GlobalV4
        /\ rs'.gotEP4 = rs'.report.GlobalV4
        /\ rs'.hairSends <= 1 /\ rs'.hairFired <= 1
        /\ rs'.hairSends > rs.hairSends => rs.gotEP4 = "" /\ \E k \in Readers : callback4(k)
        /\ rs'.report.MappingVariesByDestIP # rs.report.MappingVariesByDestIP =>
             rs.gotEP4 # "" /\ \E k \in Readers : callback4(k)
        /\ \A k \in Readers :
             callback4(k) =>
                \E ipp \in EPs(probeIPv4) :
                    IF rs.gotEP4 = ""
                    THEN rs'.gotEP4 = ipp
                    ELSE rs'.report.MappingVariesByDestIP = laterMapping(rs, ipp)
        /\ \A tx \in rs.inFlight, ipp \in EPs(probeIPv4), d \in LatVals :
             LET node == namedNode(dm, ProbeOf(rs, tx).node)
                 st == addNodeLatency(rs, node, probeIPv4, ipp, d)
             IN  IF rs.gotEP4 = ""
                 THEN st.gotEP4 = ipp /\ st.report.GlobalV4 = ipp
                 ELSE st.report.MappingVariesByDestIP = laterMapping(rs, ipp)]_vars

\* Three IPv4 responses were taken in by a full invocation: the hairpin probe
\* was written once and its timer has fired, and a later response, with
\* another address than the first, has set MappingVariesByDestIP.
C24_Witness ==
    /\ Live
    /\ Cardinality(answered4) = 3
    /\ rs.hairSends = 1
    /\ rs.hairFired = 1
    /\ rs.report.MappingVariesByDestIP = "true"

\* A callback runs in this step, in reader k.
callback(k) == dispatches(k) /\ Live /\ reader[k].tx \in rs.inFlight

\* v is the highest latency of the map m.
isMax(m, v) == (\E k \in DOMAIN m : m[k] = v) /\ (\A k \in DOMAIN m : m[k] <= v)

\* C25: no early-stop timer is started while fewer than enoughRegions regions
\* have a latency; the response that brings their number to enoughRegions
\* starts a timer whose duration is the highest latency of RegionLatency,
\* doubled in a full report; a timer that fires signals stopProbeCh, which
\* only the select of the probing phase consumes, and that select can then
\* take it and end the wait for the probes.
C25_EarlyStop ==
    [][nCalls' = nCalls =>
        /\ Cardinality(DOMAIN rs'.report.RegionLatency) < enoughRegions => rs'.timers = <<>>
        /\ \A k \in Readers :
             (/\ callback(k)
              /\ Cardinality(DOMAIN rs.report.RegionLatency) < enoughRegions
              /\ Cardinality(DOMAIN rs'.report.RegionLatency) = enoughRegions) =>
                /\ Len(rs'.timers) = Len(rs.timers) + 1
                /\ rs'.timers[Len(rs'.timers)].state = "pending"
                /\ \E v \in LatVals :
                     /\ isMax(rs'.report.RegionLatency, v)
                     /\ rs'.timers[Len(rs'.timers)].timeout = IF rs.incremental THEN v ELSE 2 * v
        /\ \A rl \in [1..enoughRegions -> LatVals], v \in LatVals :
             isMax(rl, v) =>
                LET inc == addStopTimer([rs EXCEPT !.incremental = TRUE], rl)
                    full == addStopTimer([rs EXCEPT !.incremental = FALSE], rl)
                IN  inc[Len(inc)].timeout = v /\ full[Len(full)].timeout = 2 * v
        /\ \A n \in DOMAIN rs.timers :
             (rs.timers[n].state = "pending" /\ rs'.timers[n].state = "fired") =>
                rs'.stopProbeCh
        /\ (rs.stopProbeCh /\ ~rs'.stopProbeCh) => pc = "probing" /\ pc' = "hair"
        /\ (pc = "probing" /\ rs.stopProbeCh) =>
             ENABLED (GetReportWait /\ ~rs'.stopProbeCh)]_vars

\* The early-stop timer of a full invocation, of twice the highest latency,
\* has fired and the select of the probing phase has taken its signal.
C25_Witness ==
    /\ Live
    /\ pc # "probing"
    /\ Len(rs.timers) = 1
    /\ rs.timers[1].state = "fired"
    /\ rs.timers[1].timeout = 2 * 25 * Millisecond
    /\ ~rs.stopProbeCh
    /\ ~rs.ctxDone

\* C26: every admitted invocation of GetReport returns, whether or not a
\* response arrives and whether or not the plan has a probe.
C26_Terminates == Live ~> (pc = "returned")


\* An invocation whose plan was empty has returned: no response was taken
\* in, the task of probePortMapServices is done, and the HTTPS fallback has
\* measured region 1.
C26_Witness ==
    /\ Returned
    /\ DOMAIN rs.plan = {}
    /\ ~result.report.UDP
    /\ probeRun.pc = "done"
    /\ 1 \in DOMAIN result.report.RegionLatency

\* The regions C27 lets the HTTPS fallback measure.
measurable(st) ==
    {rid \in DOMAIN dm :
        /\ rid \notin DOMAIN st.report.RegionLatency
        /\ \E i \in 1..Len(dm[rid].Nodes) : ~dm[rid].Nodes[i].STUNOnly}

C28_AsStated ==
    pc = "returned" =>
        /\ \A n \in DOMAIN rs.timers : rs.timers[n].state # "pending"
        /\ rs.hairFired = rs.hairSends

\* The step ends the read loop of Probe.
loopEnds == probeRun.pc = "reading" /\ probeRun'.pc = "returning"

\* After the step a PCP announce reply has been read by the invocation, and
\* PMP is in its result.
nothingMore == probeRun'.pcpHeard /\ probeRun'.res["PMP"]

\* The step is a return of Probe without error.
returnsNil == probeRun'.pc = "returned" /\ probeRun' # probeRun /\ probeRun'.err = ""

\* lastProbe is set by the step if and only if Probe returns with a nil
\* error in it; a return without gateway leaves it.
lastProbeIffNil ==
    /\ pmc'.lastProbe = IF returnsNil THEN pmc.now ELSE pmc.lastProbe
    /\ probeRun'.err = "ErrGatewayNotFound" => ~returnsNil

\* C29 as stated: the read loop of Probe ends exactly when a PCP announce
\* reply and PMP are accounted for or when the deadline fires; the end by the
\* deadline returns no error and what was learned; lastProbe is set if and
\* only if Probe returns a nil error.
C29_AsStated ==
    [][/\ probeRun.pc = "reading" =>
            /\ (probeRun'.pc = "returning") <=> (nothingMore \/ probeRun'.deadline)
            /\ (loopEnds /\ probeRun'.deadline) =>
                   probeRun'.err = "" /\ probeRun'.res = probeRun.res
       /\ lastProbeIffNil]_vars

\* C29, amended: the read loop of Probe ends exactly when a PCP announce
\* reply has been read and PMP is accounted for, or when ReadFrom fails, by
\* the deadline or otherwise; the end by the deadline returns no error and
\* what was learned, the end by another failure returns an error; lastProbe
\* is set if and only if Probe returns a nil error.
C29_ReadLoop ==
    [][/\ probeRun.pc = "reading" =>
            /\ (probeRun'.pc = "returning") <=>
                   (nothingMore \/ probeRun'.deadline \/ probeRun'.err # "")
            /\ (loopEnds /\ probeRun'.deadline) =>
                   probeRun'.err = "" /\ probeRun'.res = probeRun.res
            /\ (loopEnds /\ ~nothingMore /\ ~probeRun'.deadline) => probeRun'.err # ""
       /\ lastProbeIffNil]_vars

\* Probe has returned without error at the deadline with PCP learned and PMP
\* not, and lastProbe is the time of the return.
C29_Witness ==
    /\ probeRun.pc = "returned"
    /\ probeRun.deadline
    /\ probeRun.err = ""
    /\ probeRun.res["PCP"]
    /\ ~probeRun.res["PMP"]
    /\ pmc.now > 0
    /\ pmc.lastProbe = pmc.now

\* The node of region reg that try t of the initial plan targets.
tryNode(reg, t) == reg.Nodes[(t % Len(reg.Nodes)) + 1]

\* The tries of region reg for which the initial plan has a probe of proto:
\* the interface state has the family and the node's literal of the family
\* is not set or is an address of the family.
triesOf(reg, proto) ==
    {t \in 0..2 :
        IF proto = probeIPv4
        THEN ifState.HaveV4 /\ tryNode(reg, t).IPv4 \in {"", "ip4"}
        ELSE ifState.HaveV6 /\ tryNode(reg, t).IPv6 \in {"", "ip6"}}

\* The probes of the set of a plan, as a set.
probesOf(plan, s) == {plan[s][i] : i \in 1..Len(plan[s])}

\* C30: the plan of a full report has, for each region of the map and each
\* try in 0..2, a probe of node number try mod the number of nodes with
\* delay try x 100 ms, by IPv4 iff the interface state has IPv4 and the node
\* is not without IPv4, and by IPv6 alike; the probes of a region and a
\* family are the set named by both, and a set without probes is absent.
C30_InitialPlan ==
    pc = "probing" =>
        /\ DOMAIN rs.plan \subseteq {SetName(r, proto) : r \in DOMAIN dm, proto \in {probeIPv4, probeIPv6}}
        /\ \A r \in DOMAIN dm : \A proto \in {probeIPv4, probeIPv6} :
             LET tries == triesOf(dm[r], proto)
                 s == SetName(r, proto)
             IN  /\ s \in DOMAIN rs.plan <=> tries # {}
                 /\ s \in DOMAIN rs.plan =>
                      /\ Len(rs.plan[s]) = Cardinality(tries)
                      /\ probesOf(rs.plan, s) =
                           {Probe(t * 100 * Millisecond, tryNode(dm[r], t).Name, proto) : t \in tries}

\* The plan of a dual-stack Client for a region 1 of two nodes, the first
\* with IPv4 and the second without: tries 0 and 2 by IPv4 and no IPv6 set,
\* and no set for a region 2 without IPv4.
C30_Witness ==
    /\ pc = "probing"
    /\ ifState.HaveV4 /\ ifState.HaveV6
    /\ Len(dm[1].Nodes) = 2
    /\ 2 \in DOMAIN dm
    /\ SetName(1, probeIPv6) \notin DOMAIN rs.plan
    /\ SetName(2, probeIPv4) \notin DOMAIN rs.plan
    /\ SetName(1, probeIPv4) \in DOMAIN rs.plan
    /\ rs.plan[SetName(1, probeIPv4)] =
         <<Probe(0, "1a", probeIPv4), Probe(2 * defaultInitialRetransmitTime, "1a", probeIPv4)>>

\* ------------------------------------------------------ the incremental plan

\* The previous latency of region r in the report the invocation plans
\* from, 0 when it has none.
prevLat(r) == MapGet(rs.last[1].RegionLatency, r)

\* The orders of the regions that are not avoided by previous latency, the
\* lowest first and the regions without one last.
byLatency ==
    LET ids == {r \in DOMAIN dm : ~dm[r].Avoid}
        n == Cardinality(ids)
        before(a, b) == prevLat(a) # 0 /\ (prevLat(b) = 0 \/ prevLat(a) < prevLat(b))
    IN  {s \in [1..n -> ids] :
            /\ \A i, j \in 1..n : i # j => s[i] # s[j]
            /\ \A i, j \in 1..n : i < j => ~before(s[j], s[i])}

\* The first n regions of the order s.
top(s, n) == {s[k] : k \in 1..Min(n, Len(s))}

\* The regions with a set in the plan.
probed == {k[1] : k \in DOMAIN rs.plan}

\* The probes of region r in the plan.
probesOfRegion(r) == UNION {probesOf(rs.plan, k) : k \in {x \in DOMAIN rs.plan : x[1] = r}}

\* The number of tries of region r that have a probe in the plan.
triesIn(r) == Cardinality({p.delay : p \in probesOfRegion(r)})

\* The tries of region r in the order s: 4 for the preferred region of the
\* previous report, else 2 for the two fastest, else 1.
triesFor(s, r) ==
    IF r = rs.last[1].PreferredDERP THEN 4 ELSE IF r \in top(s, 2) THEN 2 ELSE 1

\* IPv4 and IPv6 latencies in the previous report.
had4 == DOMAIN rs.last[1].RegionV4Latency # {}

had6 == DOMAIN rs.last[1].RegionV6Latency # {}

\* GetReport has made the plan of an incremental report.
plannedIncremental == pc = "probing" /\ rs.incremental

\* C31 as stated: the probed regions are among the three of lowest previous
\* latency that are not avoided, and each has 4 tries if it was preferred,
\* else 2 if it is among the two fastest, else 1.
C31_AsStated ==
    plannedIncremental =>
        \E s \in byLatency :
            /\ probed \subseteq top(s, 3)
            /\ \A r \in probed : triesIn(r) = triesFor(s, r)

\* C31, amended: as stated, all three being probed, unless the interface
\* state has no IPv4 and IPv6 did not work in the previous report: then only
\* the two fastest regions are probed, with one try each (and none when the
\* interface state has no IPv6 either).
C31_Tries ==
    plannedIncremental =>
        \E s \in byLatency :
            IF ifState.HaveV4 \/ (ifState.HaveV6 /\ had6)
            THEN /\ probed = top(s, 3)
                 /\ \A r \in probed : triesIn(r) = triesFor(s, r)
            ELSE /\ probed = IF ifState.HaveV6 THEN top(s, 2) ELSE {}
                 /\ \A r \in probed : triesIn(r) = 1

\* An incremental plan for four regions with a previous latency: three are
\* probed, the preferred one, which is not among the two fastest, with 4
\* tries, and the two fastest with 2 tries.
C31_Witness ==
    /\ plannedIncremental
    /\ \A r \in 1..4 : prevLat(r) # 0
    /\ Cardinality(probed) = 3
    /\ \E r \in probed :
         /\ r = rs.last[1].PreferredDERP
         /\ triesIn(r) = 4
         /\ \E a, b \in probed : a # b /\ prevLat(a) < prevLat(r) /\ prevLat(b) < prevLat(r)
                                       /\ triesIn(a) = 2 /\ triesIn(b) = 2

\* The families region r has a set of in the plan.
familiesOf(r) == {k[2] : k \in {x \in DOMAIN rs.plan : x[1] = r}}

\* Region r has a probe of family proto at every one of its tries in the
\* order s.
everyTry(s, r, proto) ==
    /\ SetName(r, proto) \in DOMAIN rs.plan
    /\ Len(rs.plan[SetName(r, proto)]) = triesFor(s, r)

\* The probed regions after the two fastest of the order s are probed by
\* IPv4 alone at an even rank and by IPv6 alone at an odd rank.
slowerAlternate(s) ==
    \A k \in 3..Len(s) :
        s[k] \in probed =>
            familiesOf(s[k]) = IF (k - 1) % 2 = 0 THEN {probeIPv4} ELSE {probeIPv6}

\* Only the two fastest regions of the order s have an IPv6 probe.
only6Fastest(s) == \A r \in probed : probeIPv6 \in familiesOf(r) => r \in top(s, 2)

\* C32 as stated: when both families worked in the previous report, the two
\* fastest regions have an IPv4 and an IPv6 probe at every try and a slower
\* region is probed by IPv4 alone (even rank) or IPv6 alone (odd rank); when
\* IPv6 did not work, only the two fastest regions have an IPv6 probe.
C32_AsStated ==
    plannedIncremental =>
        \E s \in byLatency :
            /\ (had4 /\ had6) =>
                 /\ \A r \in top(s, 2) : everyTry(s, r, probeIPv4) /\ everyTry(s, r, probeIPv6)
                 /\ slowerAlternate(s)
            /\ ~had6 => only6Fastest(s)

\* C32, amended: as stated, the two fastest regions having both families at
\* every try when moreover the interface state has IPv4 and IPv6.
C32_Families ==
    plannedIncremental =>
        \E s \in byLatency :
            /\ (had4 /\ had6 /\ ifState.HaveV4 /\ ifState.HaveV6) =>
                 \A r \in top(s, 2) : everyTry(s, r, probeIPv4) /\ everyTry(s, r, probeIPv6)
            /\ (had4 /\ had6) => slowerAlternate(s)
            /\ ~had6 => only6Fastest(s)

\* An incremental plan of a dual-stack Client after a report in which both
\* families worked: the two fastest regions have both sets, two probes in
\* each, and the third region, with a higher latency, an IPv4 set alone.
C32_Witness ==
    /\ plannedIncremental
    /\ had4 /\ had6 /\ ifState.HaveV4 /\ ifState.HaveV6
    /\ rs.last[1].PreferredDERP = 5
    /\ \E a, b, c \in 1..4 :
         /\ a # b
         /\ probed = {a, b, c}
         /\ prevLat(a) < prevLat(c) /\ prevLat(b) < prevLat(c)
         /\ familiesOf(a) = {probeIPv4, probeIPv6}
         /\ familiesOf(b) = {probeIPv4, probeIPv6}
         /\ Len(rs.plan[SetName(a, probeIPv6)]) = 2
         /\ Len(rs.plan[SetName(b, probeIPv4)]) = 2
         /\ familiesOf(c) = {probeIPv4}

\* The latency term of region r: its previous latency x 1.2 in whole
\* nanoseconds (the latency and a fifth of it), or 200 ms when it has none.
latencyTerm(r) ==
    IF prevLat(r) = 0 THEN 200 * Millisecond ELSE prevLat(r) + prevLat(r) \div 5

\* The delay of try number try of region r.
tryDelay(r, try) == try * latencyTerm(r) + (IF try >= 2 THEN try * 50 * Millisecond ELSE 0)

\* C33: in an incremental plan, probe number try of a set of region r has
\* delay try x the latency term of r, plus try x 50 ms from try 2 on, and
\* targets node number try mod the number of nodes; the IPv4 set of a
\* single-node region with 4 tries is 4 probes of that node with delays 0,
\* L, 2L + 100 ms and 3L + 150 ms in this order.
C33_Delays ==
    plannedIncremental =>
        /\ \A k \in DOMAIN rs.plan : \A i \in 1..Len(rs.plan[k]) :
             rs.plan[k][i] = Probe(tryDelay(k[1], i - 1), tryNode(dm[k[1]], i - 1).Name, k[2])
        /\ \A k \in DOMAIN rs.plan :
             (Len(dm[k[1]].Nodes) = 1 /\ Len(rs.plan[k]) = 4) =>
                 LET L == latencyTerm(k[1])
                     n == dm[k[1]].Nodes[1].Name
                 IN  rs.plan[k] = <<Probe(0, n, k[2]), Probe(L, n, k[2]),
                                    Probe(2 * L + 100 * Millisecond, n, k[2]),
                                    Probe(3 * L + 150 * Millisecond, n, k[2])>>

\* The single-node region 1, preferred with a previous latency of 20 ms, has
\* the four IPv4 probes of delays 0, 24, 148 and 222 ms, and a region
\* without previous latency has a second IPv4 probe at 200 ms.
C33_Witness ==
    /\ plannedIncremental
    /\ SetName(1, probeIPv4) \in DOMAIN rs.plan
    /\ rs.plan[SetName(1, probeIPv4)] =
         <<Probe(0, "1a", probeIPv4), Probe(24 * Millisecond, "1a", probeIPv4),
           Probe(148 * Millisecond, "1a", probeIPv4), Probe(222 * Millisecond, "1a", probeIPv4)>>
    /\ SetName(2, probeIPv4) \in DOMAIN rs.plan
    /\ prevLat(2) = 0
    /\ rs.plan[SetName(2, probeIPv4)] =
         <<Probe(0, "2a", probeIPv4), Probe(200 * Millisecond, "2b", probeIPv4)>>

\* -------------------------------------------------------- the end of GetReport

\* C34: when an admitted GetReport has returned, with a report or with the
\* error of interfaces.GetState or of a socket bind, no reportState is
\* current, and a call of GetReport is not refused as concurrent.
C34_CurStateReset ==
    pc = "returned" => (curState = 0 /\ ~ENABLED GetReportRefused)

\* A second GetReport was admitted after the first had returned, and has
\* returned the error of interfaces.GetState; no call was refused since.
C34_Witness ==
    /\ pc = "returned"
    /\ nCalls = 2
    /\ result.err = "interfaces"
    /\ ~refused
    /\ curState = 0

\* The reportState st without what is left of the invocation before.
latest(st) == [st EXCEPT !.old = NoOld]

\* The step is of what is left of the invocation before: a response, an
\* echo or a timer of it, or a reader that handles its response.
staleStep ==
    \/ rs'.old # rs.old
    \/ \E k \in Readers : reader[k].tx = OldTx /\ reader'[k] # reader[k]

\* C35: a step of a response, hairpin echo or early-stop timer of the
\* invocation before leaves the report it returned (c.last), the Client and
\* the reportState, position and result of the latest invocation as they
\* are; and a step of ReceiveSTUNPacket while no invocation is current leaves
\* the Client and the latest reportState as they are.
C35_Isolation ==
    [][/\ staleStep =>
            /\ latest(rs') = latest(rs)
            /\ <<last, prev, nextFull, lastFull, curState, nCalls>>' =
                   <<last, prev, nextFull, lastFull, curState, nCalls>>
            /\ <<pc, result>>' = <<pc, result>>
       /\ (curState = 0 /\ reader' # reader) =>
            /\ latest(rs') = latest(rs)
            /\ <<last, prev, nextFull, lastFull, curState, nCalls>>' =
                   <<last, prev, nextFull, lastFull, curState, nCalls>>]_vars

\* While the latest invocation waits for the hairpin echo of its own probe,
\* a response and the hairpin echo of the invocation before were received
\* and dropped, a callback and an early-stop timer of the invocation before
\* have acted on its reportState, and the latest invocation has no early-stop
\* signal and no echo.
C35_Witness ==
    /\ pc = "hair"
    /\ rs.sentHairCheck
    /\ rs.old.wire = "dropped"
    /\ rs.old.echo = "dropped"
    /\ rs.old.recorded
    /\ rs.old.stopProbeCh
    /\ ~rs.stopProbeCh
    /\ ~rs.gotHairSTUN

\* C36 as stated: a probe that has reached the send step of runProbe has a
\* socket of its family that is not nil, and no write has panicked.
C36_AsStated ==
    /\ pc # "panic"
    /\ \A tx \in DOMAIN rs.probe :
         (rs.probe[tx] \in {"registered", "sent"} /\ ProbeOf(rs, tx).proto = probeIPv6) => rs.pc6

\* ---------------------------------------------------------------- locking

\* The reader of family k is between its call of ReceiveSTUNPacket and the
\* return.
inReceive(k) == reader[k].pc # "idle"

\* The task t holds neither mutex.
holdsNone(t) == mu # t /\ rs.mu # t

\* No task takes one mutex while it holds the other, and the callback is
\* called with neither held.
lockOrder ==
    /\ \A k \in Readers :
         /\ reader[k].pc \in {"hair", "locked"} => (mu = readerTask(k) /\ rs.mu # readerTask(k))
         /\ reader[k].pc = "found" => (rs.mu = readerTask(k) /\ mu # readerTask(k))
         /\ reader[k].pc \in {"idle", "lookup", "onDone"} => holdsNone(readerTask(k))
    /\ rs.mu = "waitHairCheck" <=> pc = "hairBlocked"

\* C37: the locking of c.mu and rs.mu is free of deadlock: no task holds one
\* of the mutexes while it takes the other, ReceiveSTUNPacket calls the
\* callback with neither mutex held, rs.mu held by waitHairCheck over its
\* select is always released, and every call of ReceiveSTUNPacket returns.
C37_Locking ==
    /\ []lockOrder
    /\ (rs.mu = "waitHairCheck") ~> (rs.mu # "waitHairCheck")
    /\ \A k \in Readers : inReceive(k) ~> ~inReceive(k)

\* A reader waits for rs.mu, to record a latency, while waitHairCheck holds it
\* over the select.
C37_Witness ==
    /\ rs.mu = "waitHairCheck"
    /\ reader[probeIPv4].pc = "onDone"
    /\ ~rs.hairTimeout

\* ------------------------------------------------- MappingVariesByDestIP

\* How far an opt.Bool that starts unset and may become false and then true
\* has come.
forward(b) == IF b = "" THEN 0 ELSE IF b = "false" THEN 1 ELSE 2

\* C38: within one invocation of GetReport MappingVariesByDestIP only moves
\* forward, from unknown to false or true and from false to true; once true
\* it stays true, in whatever order the IPv4 responses arrive, and the
\* report that is returned has the value reached.
C38_Forward ==
    [][/\ nCalls' = nCalls =>
            forward(rs'.report.MappingVariesByDestIP) >= forward(rs.report.MappingVariesByDestIP)
       /\ (pc # "returned" /\ pc' = "returned" /\ result'.err = "") =>
            result'.report.MappingVariesByDestIP = rs.report.MappingVariesByDestIP]_vars

\* GetReport has returned a report with MappingVariesByDestIP true after three
\* IPv4 responses were taken in: the first, and two more of which one had
\* another address.
C38_Witness ==
    /\ Returned
    /\ Cardinality(answered4) = 3
    /\ result.report.MappingVariesByDestIP = "true"

\* ------------------------------------------------------------------ Prober

\* The ProbeSubResults the task t calls Set on.
subsOf(t) == IF t = "pmpTask" THEN {"PMP", "PCP"} ELSE {"UPnP"}

\* C39 as stated: each of the PMP, PCP and UPnP sub-results is Set at least
\* once before its background task exits, whatever the cause of the exit.
C39_AsStated ==
    \A t \in Tasks :
        prober[t].pc = "exited" => \A s \in subsOf(t) : psr[s].completed

\* C40 as stated: the error of the Set of a cycle of the UPnP task is of that
\* cycle only: after a cycle in which every GetStatusInfo call succeeded the
\* UPnP sub-result has no error.
C40_AsStated ==
    (/\ prober.upnpClient = "held"
     /\ prober.upnpTask.pc \in {"broadcast", "sleep"}
     /\ prober.outcome.statusOK) => psr["UPnP"].err = ""
====
